---- MODULE Spec2Model ----
(***************************************************************************)
(* Model of the SEAM-VIZ quotient-space engine (src/core): the Vec3        *)
(* algebra, the quotient-class constructor classOf, the selection state    *)
(* machine (processIntent / processAndRender / setColors), the pullback    *)
(* dispatcher and its validator, the projective distance and the cones,    *)
(* the parity and path functions, the orbit camera, the rotation between   *)
(* two vectors, the aperture calibration and the shape meshes.             *)
(*                                                                         *)
(* Numbers.  The engine computes with IEEE doubles.  The model computes    *)
(* with exact values of the form  (c + e*tau) / sqrt(r) :                  *)
(*   c  an integer, r a positive integer (the radicand shared by the three *)
(*   coordinates of a vector), and e in {-1,0,1} the sign of a residue of  *)
(*   magnitude at most tau = 10^-TinyExp, which lies below every           *)
(*   tolerance the engine uses.  A coordinate is either an integer         *)
(*   multiple of 1/sqrt(r) (e = 0) or a pure residue (c = 0).              *)
(* Comparisons against the engine's tolerances 10^-k are decided exactly   *)
(* on the squares.  Signed zeros are not distinguished (0 = -0, as with    *)
(* the engine's own === and >= comparisons).                               *)
(***************************************************************************)
EXTENDS Integers, Sequences, FiniteSets, TLC

(***************************************************************************)
(* Bounds of the model                                                     *)
(***************************************************************************)
\* vectors handed to classOf: coordinates in -MaxCoord..MaxCoord, or residues +-tau
MaxCoord == 3
\* points clicked: integer vectors with x^2 + y^2 + z^2 <= MaxClickNorm2
MaxClickNorm2 == 2
\* tau = 10^-TinyExp, the magnitude of a sub-tolerance coordinate
TinyExp == 13
\* longest path handed to a Trace action
MaxPathLen == 2
\* the azimuth is followed up to this many milliradians either way
MaxAzimuthMilli == 1000
\* cone points and centers: integer vectors of squared length up to this
MaxConeNorm2 == 2
\* intents applied one after the other from the default state
MaxIntents == 3
\* makeShapeMesh is called with a detail of 1 to MaxDetail, or with none
MaxDetail == 4

(***************************************************************************)
(* Program constants                                                       *)
(***************************************************************************)
\* Vec3.normalize: eps = 1e-12
NormalizeEpsExp == 12
\* canonicalSign: eps = 1e-12
CanonicalEpsExp == 12
\* Vec3.approxEq / classEquals: eps = 1e-6
ApproxEpsExp == 6
\* validatePairing: tolerance 1e-6 passed to approxEq
PairingEpsExp == 6
SymmetryEpsExp == 6
PARITY_EVEN == 0
PARITY_ODD == 1
\* angles are in milliradians: Math.PI, the polar margin 0.1, the distance 4.0
PiMilli == 3142
PolarMarginMilli == 100
OrbitDistance == 4
\* calibration: spanFraction 0.4 in tenths, the intrinsic unit span 2.0, the
\* minimum aperture 0.05 in milliradians, the slider value 1 in thousandths
SpanFractionTenths == 4
IntrinsicUnitSpan == 2
MinApertureMilli == 50
SliderOne == 1000
\* makeShapeMesh: the default detail; makeTorus: rDetail
DefaultDetail == 40
RDetail == 24
\* createDefaultSelection: aperture 0.4, in milliradians
DefaultApertureMilli == 400

(***************************************************************************)
(* Exact comparisons with powers of ten (num >= 0, den > 0)                *)
(***************************************************************************)
Abs(x) == IF x < 0 THEN -x ELSE x

RECURSIVE GtPow10(_, _, _)
\* num/den > 10^-k
GtPow10(num, den, k) ==
  IF k = 0 THEN num > den
  ELSE IF num >= den THEN TRUE
  ELSE GtPow10(num * 10, den, k - 1)

RECURSIVE LtPow10(_, _, _)
\* num/den < 10^-k
LtPow10(num, den, k) ==
  IF k = 0 THEN num < den
  ELSE IF num >= den THEN FALSE
  ELSE LtPow10(num * 10, den, k - 1)

RECURSIVE Gcd(_, _)
Gcd(a, b) == IF b = 0 THEN a ELSE Gcd(b, a % b)

\* floor of the square root
Isqrt(n) == CHOOSE s \in 0..n : s * s <= n /\ (s + 1) * (s + 1) > n

(***************************************************************************)
(* Vec3 (src/core/types.ts)                                                *)
(***************************************************************************)
\* the vector ((c1 + e1*tau), (c2 + e2*tau), (c3 + e3*tau)) / sqrt(r)
MkVec(c, e, r) == [c |-> c, e |-> e, r |-> r]
\* an integer vector [x, y, z]
IVec(x, y, z) == MkVec(<<x, y, z>>, <<0, 0, 0>>, 1)

\* lowest terms: c primitive whenever the common factor is a factor of sqrt(r)
Reduce(a) ==
  LET g == Gcd(Abs(a.c[1]), Gcd(Abs(a.c[2]), Abs(a.c[3])))
  IN  IF g > 1 /\ a.r % (g * g) = 0
      THEN MkVec(<<a.c[1] \div g, a.c[2] \div g, a.c[3] \div g>>, a.e, a.r \div (g * g))
      ELSE a

\* neg: (a) => [-a[0], -a[1], -a[2]]
Vec3Neg(a) ==
  MkVec(<<-a.c[1], -a.c[2], -a.c[3]>>, <<-a.e[1], -a.e[2], -a.e[3]>>, a.r)

\* norm2 = dot(a, a), as the fraction num/den; the squares of the residues
\* (at most 3*tau^2) are absorbed by any non-zero integer part, and are all
\* that is left when the integer part is zero (num = 0, tiny = TRUE)
Vec3Norm2(a) ==
  [num  |-> a.c[1] * a.c[1] + a.c[2] * a.c[2] + a.c[3] * a.c[3],
   den  |-> a.r,
   tiny |-> a.e # <<0, 0, 0>>]

\* norm(a) < 10^-k, decided on norm2
NormLt(a, k) ==
  LET n2 == Vec3Norm2(a)
  IN  IF n2.num = 0
      THEN (~n2.tiny) \/ TinyExp > k      \* 0, or sqrt(3)*tau/sqrt(r) < 10^-k
      ELSE LtPow10(n2.num, n2.den, 2 * k)

\* scale(a, 1 / norm(a)) for norm(a) > 0: the radicand becomes the sum of squares
ScaleByInverseNorm(a) ==
  Reduce(MkVec(a.c, a.e, Vec3Norm2(a).num))

\* normalize falling back to [1, 0, 0]
Vec3NormalizeFallbackX(a) ==
  IF NormLt(a, NormalizeEpsExp) THEN IVec(1, 0, 0) ELSE ScaleByInverseNorm(a)

\* normalize: n = norm(a); if (n < eps) return [0, 0, 1]; return scale(a, 1 / n)
Vec3Normalize(a) ==
  IF NormLt(a, NormalizeEpsExp) THEN IVec(0, 0, 1) ELSE ScaleByInverseNorm(a)

\* |a[i]| > 10^-k
AbsGt(a, i, k) ==
  IF a.c[i] # 0
  THEN GtPow10(a.c[i] * a.c[i], a.r, 2 * k)
  ELSE a.e[i] # 0 /\ TinyExp < k          \* a residue is at most 10^-TinyExp

\* a[i] >= 0
NonNeg(a, i) == IF a.c[i] # 0 THEN a.c[i] > 0 ELSE a.e[i] >= 0

\* |x/sqrt(r) - y/sqrt(s)| < 10^-k for the integer parts of two coordinates.
\* Exact when r = s; otherwise decided on bounds of the difference, which is
\* exact whenever the two values are equal or differ by more than 10^-k times
\* (sqrt(r)+1)(sqrt(s)+1), as all values of the model do.
AbsDiffLt(x, r, y, s, k) ==
  IF r = s
  THEN LtPow10((x - y) * (x - y), r, 2 * k)
  ELSE IF (x >= 0) = (y >= 0) \/ x = 0 \/ y = 0
       THEN \* same sign: |x*sqrt(s) - y*sqrt(r)| = |x^2 s - y^2 r| / (|x| sqrt(s) + |y| sqrt(r))
            LET n == Abs(x * x * s - y * y * r)
                w == Abs(x) * s * (Isqrt(r) + 1) + Abs(y) * r * (Isqrt(s) + 1)
            IN  n = 0 \/ LtPow10(n, w, k)
       ELSE \* opposite signs: the difference is |x|/sqrt(r) + |y|/sqrt(s)
            LtPow10(x * x * s + y * y * r, r * s, 2 * k)

\* approxEq: |a[0]-b[0]| < eps && |a[1]-b[1]| < eps && |a[2]-b[2]| < eps
\* (two residues differ by at most 2*tau)
Vec3ApproxEq(a, b, k) ==
  \A i \in 1..3 :
     /\ AbsDiffLt(a.c[i], a.r, b.c[i], b.r, k)
     /\ (a.e[i] # b.e[i] => TinyExp > k)

(***************************************************************************)
(* Quotient classes (src/core/quotient.ts)                                 *)
(***************************************************************************)
\* canonicalSign deciding on the x coordinate alone
canonicalSignXOnly(u) == IF NonNeg(u, 1) THEN 1 ELSE -1

\* canonicalSign that never flips
canonicalSignNever(u) == 1

\* canonicalSign(u, eps = 1e-12)
canonicalSign(u) ==
  IF AbsGt(u, 1, CanonicalEpsExp) THEN (IF NonNeg(u, 1) THEN 1 ELSE -1)
  ELSE IF AbsGt(u, 2, CanonicalEpsExp) THEN (IF NonNeg(u, 2) THEN 1 ELSE -1)
  ELSE IF AbsGt(u, 3, CanonicalEpsExp) THEN (IF NonNeg(u, 3) THEN 1 ELSE -1)
  ELSE 1

normalize(v) == Vec3Normalize(v)

antipode(u) == Vec3Neg(u)

\* classOf storing the normalized input, not the canonical vector, as the
\* first representative
classOfUnpaired(v) ==
  LET u0 == normalize(v)
      sign == canonicalSign(u0)
      canonical == IF sign = 1 THEN u0 ELSE antipode(u0)
  IN  [canonical |-> canonical,
       representatives |-> <<u0, antipode(canonical)>>]

classOf(v) ==
  LET u0 == normalize(v)
      sign == canonicalSign(u0)
      canonical == IF sign = 1 THEN u0 ELSE antipode(u0)
  IN  [canonical |-> canonical,
       representatives |-> <<canonical, antipode(canonical)>>]

\* classEquals comparing each representative with the other class's opposite one
classEqualsCrossed(a, b) ==
  LET u1 == a.representatives[1]
      negU1 == a.representatives[2]
      u2 == b.representatives[1]
      negU2 == b.representatives[2]
  IN  Vec3ApproxEq(u1, negU2, ApproxEpsExp) \/ Vec3ApproxEq(negU1, u2, ApproxEpsExp)

\* classEquals(a, b, eps = 1e-6)
classEquals(a, b) ==
  LET u1 == a.representatives[1]
      u2 == b.representatives[1]
      negU2 == b.representatives[2]
  IN  Vec3ApproxEq(u1, u2, ApproxEpsExp) \/ Vec3ApproxEq(u1, negU2, ApproxEpsExp)

getBothRepresentatives(qClass) == qClass.representatives

(***************************************************************************)
(* Scalars and angles (src/core/types.ts, Math)                            *)
(*                                                                         *)
(* A dot product is the record [n, d, tiny]: the value n/sqrt(d), and in   *)
(* tiny the sign of the rounding error the doubles leave on it when the    *)
(* exact value is 1 or -1 (the only place where acos magnifies it).  An    *)
(* angle is the record [milli, tiny]: the angle rounded to the             *)
(* milliradian, and the sign of an excess of about 2e-8 rad over it.  An   *)
(* aperture is a whole number of milliradians, so an angle and an aperture *)
(* less than half a milliradian apart are not told apart.                  *)
(***************************************************************************)
Sign(x) == IF x > 0 THEN 1 ELSE IF x < 0 THEN -1 ELSE 0

Num(k) == [n |-> k, d |-> 1, tiny |-> 0]

\* x*x + y*y + z*z in doubles for a unit vector c/sqrt(r), against 1:
\* exact for r = 1, 0.9999999999999998 for r = 2, 1.0000000000000002 for r = 3
UnitDotRounding(r) ==
  CASE r = 1 -> 0
    [] r = 2 -> -1
    [] r = 3 -> 1

IsUnit(a) == a.c[1] * a.c[1] + a.c[2] * a.c[2] + a.c[3] * a.c[3] = a.r

\* dot: a[0]*b[0] + a[1]*b[1] + a[2]*b[2]; residues are below the resolution
Vec3Dot(a, b) ==
  LET n == a.c[1] * b.c[1] + a.c[2] * b.c[2] + a.c[3] * b.c[3]
      d == a.r * b.r
  IN  [n |-> n, d |-> d,
       tiny |-> IF n * n = d /\ IsUnit(a) /\ IsUnit(b)
                THEN Sign(n) * UnitDotRounding(a.r)
                ELSE 0]

\* the sign of x - k for an integer k
CmpNum(x, k) ==
  LET exact == IF Sign(x.n) # Sign(k) THEN Sign(Sign(x.n) - Sign(k))
               ELSE Sign(x.n) * Sign(x.n * x.n - k * k * x.d)
  IN  IF exact # 0 THEN exact ELSE x.tiny

\* clamp: Math.max(lo, Math.min(hi, x)), lo and hi integers
Vec3Clamp(x, lo, hi) ==
  LET least == IF CmpNum(x, hi) > 0 THEN Num(hi) ELSE x
  IN  IF CmpNum(least, lo) < 0 THEN Num(lo) ELSE least

MathAbs(x) ==
  IF CmpNum(x, 0) < 0 THEN [n |-> -x.n, d |-> x.d, tiny |-> -x.tiny] ELSE x

\* acos of sign * sqrt(p/q), p/q in lowest terms, rounded to the milliradian
AcosMilli(sign, p, q) ==
  CASE p = 0 -> 1571
    [] p = 1 /\ q = 1 -> IF sign > 0 THEN 0 ELSE 3142
    [] p = 2 /\ q = 3 -> IF sign > 0 THEN 615 ELSE 2526
    [] p = 1 /\ q = 2 -> IF sign > 0 THEN 785 ELSE 2356
    [] p = 1 /\ q = 3 -> IF sign > 0 THEN 955 ELSE 2186
    [] p = 1 /\ q = 4 -> IF sign > 0 THEN 1047 ELSE 2094
    [] p = 1 /\ q = 9 -> IF sign > 0 THEN 1231 ELSE 1911

\* Math.acos on [-1, 1]: decreasing, so a deficit of the cosine is an excess
\* of the angle
MathAcos(x) ==
  LET g == Gcd(x.n * x.n, x.d)
  IN  [milli |-> AcosMilli(Sign(x.n), (x.n * x.n) \div g, x.d \div g),
       tiny |-> -x.tiny]

\* angle: acos(clamp(dot(a, b), -1, 1))
Vec3Angle(a, b) == MathAcos(Vec3Clamp(Vec3Dot(a, b), -1, 1))

AngleLeq(x, y) == x.milli < y.milli \/ (x.milli = y.milli /\ x.tiny <= y.tiny)

\* Math.min of two angles
MathMin(x, y) == IF AngleLeq(x, y) THEN x ELSE y

\* an aperture, or another whole number of milliradians, as an angle
Milli(m) == [milli |-> m, tiny |-> 0]

(***************************************************************************)
(* Distance and cones (src/core/quotient.ts)                               *)
(***************************************************************************)
\* quotientDistance on the signed dot product
quotientDistanceSigned(a, b) ==
  LET u == a.canonical
      v == b.canonical
      clamped == Vec3Clamp(Vec3Dot(u, v), -1, 1)
  IN  MathAcos(clamped)

quotientDistance(a, b) ==
  LET u == a.canonical
      v == b.canonical
      absDot == MathAbs(Vec3Dot(u, v))
      clamped == Vec3Clamp(absDot, 0, 1)
  IN  MathAcos(clamped)

\* pointInQuotientCone looking at the first representative only
pointInQuotientConeOneSided(point, center, aperture) ==
  LET u == center.representatives[1]
      angleToU == Vec3Angle(point, u)
  IN  AngleLeq(angleToU, Milli(aperture))

\* pointInQuotientCone with the boundary outside: minAngle < aperture
pointInQuotientConeOpen(point, center, aperture) ==
  LET u == center.representatives[1]
      negU == center.representatives[2]
      angleToU == Vec3Angle(point, u)
      angleToNegU == Vec3Angle(point, negU)
      minAngle == MathMin(angleToU, angleToNegU)
  IN  ~AngleLeq(Milli(aperture), minAngle)

pointInQuotientCone(point, center, aperture) ==
  LET u == center.representatives[1]
      negU == center.representatives[2]
      angleToU == Vec3Angle(point, u)
      angleToNegU == Vec3Angle(point, negU)
      minAngle == MathMin(angleToU, angleToNegU)
  IN  AngleLeq(minAngle, Milli(aperture))

\* 1.0 - (minAngle / aperture) as the fraction num/den in lowest terms, with
\* in tiny the sign of what the excess of the angle leaves on it
LinearFalloff(minAngle, aperture) ==
  LET g == Gcd(Abs(aperture - minAngle.milli), Abs(aperture))
  IN  [num |-> (aperture - minAngle.milli) \div g, den |-> aperture \div g,
       tiny |-> -minAngle.tiny]

\* quotientConeWeight looking at the first representative only
quotientConeWeightOneSided(point, center, aperture) ==
  LET u == center.representatives[1]
      minAngle == Vec3Angle(point, u)
  IN  IF AngleLeq(Milli(aperture), minAngle)
      THEN [num |-> 0, den |-> 1, tiny |-> 0]
      ELSE LinearFalloff(minAngle, aperture)

quotientConeWeight(point, center, aperture) ==
  LET u == center.representatives[1]
      negU == center.representatives[2]
      angleToU == Vec3Angle(point, u)
      angleToNegU == Vec3Angle(point, negU)
      minAngle == MathMin(angleToU, angleToNegU)
  IN  IF AngleLeq(Milli(aperture), minAngle)
      THEN [num |-> 0, den |-> 1, tiny |-> 0]
      ELSE LinearFalloff(minAngle, aperture)

(***************************************************************************)
(* Selection state machine (src/core/selection.ts)                         *)
(***************************************************************************)
createDefaultSelection ==
  [selectedClass |-> classOf(IVec(0, 1, 0)),
   aperture |-> DefaultApertureMilli,
   colors |-> [u |-> "#00e5bc", negU |-> "#6366f1"]]

\* processIntent without the ClickSource case (it falls to the default)
processIntentNoSource(s, intent) ==
  CASE intent.type = "ClickQuotient" ->
         [s EXCEPT !.selectedClass = classOf(intent.point)]
    [] intent.type = "SetAperture" ->
         [s EXCEPT !.aperture = intent.value]
    [] intent.type = "Reset" ->
         createDefaultSelection
    [] OTHER ->
         s

\* processIntent clamping the aperture to [0, pi]
processIntentClamped(s, intent) ==
  CASE intent.type \in {"ClickQuotient", "ClickSource"} ->
         [s EXCEPT !.selectedClass = classOf(intent.point)]
    [] intent.type = "SetAperture" ->
         [s EXCEPT !.aperture = IF intent.value < 0 THEN 0
                                ELSE IF intent.value > 3142 THEN 3142
                                ELSE intent.value]
    [] intent.type = "Reset" ->
         createDefaultSelection
    [] OTHER ->
         s

\* processIntent whose Reset keeps the colors in use
processIntentResetKeepsColors(s, intent) ==
  CASE intent.type \in {"ClickQuotient", "ClickSource"} ->
         [s EXCEPT !.selectedClass = classOf(intent.point)]
    [] intent.type = "SetAperture" ->
         [s EXCEPT !.aperture = intent.value]
    [] intent.type = "Reset" ->
         [createDefaultSelection EXCEPT !.colors = s.colors]
    [] OTHER ->
         s

\* processIntent whose DragOrbit case falls through to Reset
processIntentDragResets(s, intent) ==
  CASE intent.type \in {"ClickQuotient", "ClickSource"} ->
         [s EXCEPT !.selectedClass = classOf(intent.point)]
    [] intent.type = "SetAperture" ->
         [s EXCEPT !.aperture = intent.value]
    [] intent.type \in {"Reset", "DragOrbit"} ->
         createDefaultSelection
    [] OTHER ->
         s

\* processIntent whose SetAperture case leaves out the spread of the state
processIntentNoSpread(s, intent) ==
  CASE intent.type = "ClickQuotient" ->
         [s EXCEPT !.selectedClass = classOf(intent.point)]
    [] intent.type = "ClickSource" ->
         [s EXCEPT !.selectedClass = classOf(intent.point)]
    [] intent.type = "SetAperture" ->
         [createDefaultSelection EXCEPT !.aperture = intent.value]
    [] intent.type = "Reset" ->
         createDefaultSelection
    [] intent.type = "DragOrbit" ->
         s
    [] OTHER ->
         s

\* processIntent whose Reset case falls through to DragOrbit
processIntentResetFallsThrough(s, intent) ==
  CASE intent.type = "ClickQuotient" ->
         [s EXCEPT !.selectedClass = classOf(intent.point)]
    [] intent.type = "ClickSource" ->
         [s EXCEPT !.selectedClass = classOf(intent.point)]
    [] intent.type = "SetAperture" ->
         [s EXCEPT !.aperture = intent.value]
    [] intent.type = "Reset" ->
         s
    [] intent.type = "DragOrbit" ->
         s
    [] OTHER ->
         s

processIntent(s, intent) ==
  CASE intent.type = "ClickQuotient" ->
         [s EXCEPT !.selectedClass = classOf(intent.point)]
    [] intent.type = "ClickSource" ->
         [s EXCEPT !.selectedClass = classOf(intent.point)]
    [] intent.type = "SetAperture" ->
         [s EXCEPT !.aperture = intent.value]
    [] intent.type = "Reset" ->
         createDefaultSelection
    [] intent.type = "DragOrbit" ->
         s
    [] OTHER ->                       \* console.warn; return state
         s

\* generateRenderDirectives drawing no spotlight for an empty cone
generateRenderDirectivesSkipsEmpty(s) ==
  LET reps == getBothRepresentatives(s.selectedClass)
      u == reps[1]
      negU == reps[2]
  IN  [spotlights |->
         IF s.aperture <= 0 THEN <<>>
         ELSE << [direction |-> u, color |-> s.colors.u, aperture |-> s.aperture],
                 [direction |-> negU, color |-> s.colors.negU, aperture |-> s.aperture] >>,
       quotientMarkers |->
         << [class |-> s.selectedClass,
             aperture |-> s.aperture,
             colors |-> <<s.colors.u, s.colors.negU>>] >>]

generateRenderDirectives(s) ==
  LET reps == getBothRepresentatives(s.selectedClass)
      u == reps[1]
      negU == reps[2]
  IN  [spotlights |->
         << [direction |-> u, color |-> s.colors.u, aperture |-> s.aperture],
            [direction |-> negU, color |-> s.colors.negU, aperture |-> s.aperture] >>,
       quotientMarkers |->
         << [class |-> s.selectedClass,
             aperture |-> s.aperture,
             colors |-> <<s.colors.u, s.colors.negU>>] >>]

processAndRender(s, intent) ==
  LET newState == processIntent(s, intent)
      directives == generateRenderDirectives(newState)
  IN  <<newState, directives>>

setColors(s, uColor, negUColor) ==
  [s EXCEPT !.colors = [u |-> uColor, negU |-> negUColor]]

validatePairing(s) ==
  LET reps == getBothRepresentatives(s.selectedClass)
      u == reps[1]
      negU == reps[2]
      expectedNegU == Vec3Neg(u)
  IN  Vec3ApproxEq(negU, expectedNegU, PairingEpsExp)

\* isPointHighlighted taking the angles of the point as given
isPointHighlightedRaw(s, point) ==
  LET reps == getBothRepresentatives(s.selectedClass)
      u == reps[1]
      negU == reps[2]
      angleToU == Vec3Angle(point, u)
      angleToNegU == Vec3Angle(point, negU)
      minAngle == MathMin(angleToU, angleToNegU)
  IN  AngleLeq(minAngle, Milli(s.aperture))

isPointHighlighted(s, point) ==
  LET reps == getBothRepresentatives(s.selectedClass)
      u == reps[1]
      negU == reps[2]
      normalized == Vec3Normalize(point)
      angleToU == Vec3Angle(normalized, u)
      angleToNegU == Vec3Angle(normalized, negU)
      minAngle == MathMin(angleToU, angleToNegU)
  IN  AngleLeq(minAngle, Milli(s.aperture))

selectionWeight(s, point) ==
  LET reps == getBothRepresentatives(s.selectedClass)
      u == reps[1]
      negU == reps[2]
      normalized == Vec3Normalize(point)
      angleToU == Vec3Angle(normalized, u)
      angleToNegU == Vec3Angle(normalized, negU)
      minAngle == MathMin(angleToU, angleToNegU)
  IN  IF AngleLeq(Milli(s.aperture), minAngle)
      THEN [num |-> 0, den |-> 1, tiny |-> 0]
      ELSE LinearFalloff(minAngle, s.aperture)

(***************************************************************************)
(* Pullback (src/core/mesh.ts)                                             *)
(***************************************************************************)
\* the value of an array element that does not exist
Undefined == [undefined |-> TRUE]

\* pullbackSelect with spotlight colors of its own
pullbackSelectOwnColors(action) ==
  LET reps == getBothRepresentatives(action.class)
  IN  [action |-> action,
       effectOnU |-> [type |-> "spotlight", position |-> reps[1],
                      parameters |-> [aperture |-> action.aperture,
                                      color |-> "#ff0000", intensity |-> 1]],
       effectOnNegU |-> [type |-> "spotlight", position |-> reps[2],
                         parameters |-> [aperture |-> action.aperture,
                                         color |-> "#0000ff", intensity |-> 1]]]

pullbackSelect(action) ==
  LET reps == getBothRepresentatives(action.class)
  IN  [action |-> action,
       effectOnU |-> [type |-> "spotlight", position |-> reps[1],
                      parameters |-> [aperture |-> action.aperture,
                                      color |-> "#00e5bc", intensity |-> 1]],
       effectOnNegU |-> [type |-> "spotlight", position |-> reps[2],
                         parameters |-> [aperture |-> action.aperture,
                                         color |-> "#6366f1", intensity |-> 1]]]

pullbackPaint(action) ==
  LET reps == getBothRepresentatives(action.class)
  IN  [action |-> action,
       effectOnU |-> [type |-> "paint", position |-> reps[1],
                      parameters |-> [radius |-> action.radius,
                                      color |-> action.color, blendMode |-> "normal"]],
       effectOnNegU |-> [type |-> "paint", position |-> reps[2],
                         parameters |-> [radius |-> action.radius,
                                         color |-> action.color, blendMode |-> "normal"]]]

pullbackStamp(action) ==
  LET reps == getBothRepresentatives(action.class)
  IN  [action |-> action,
       effectOnU |-> [type |-> "stamp", position |-> reps[1],
                      parameters |-> [pattern |-> action.pattern,
                                      rotation |-> "0", scale |-> 1]],
       effectOnNegU |-> [type |-> "stamp", position |-> reps[2],
                         parameters |-> [pattern |-> action.pattern,
                                         rotation |-> "pi", scale |-> 1]]]

pullbackTrace(action) ==
  LET pathU == action.path
      pathNegU == [i \in 1..Len(action.path) |-> Vec3Neg(action.path[i])]
  IN  [action |-> action,
       effectOnU |-> [type |-> "trace",
                      position |-> IF Len(pathU) > 0 THEN pathU[1] ELSE Undefined,
                      parameters |-> [path |-> pathU, lineWidth |-> 2,
                                      color |-> "#00e5bc"]],
       effectOnNegU |-> [type |-> "trace",
                         position |-> IF Len(pathNegU) > 0 THEN pathNegU[1] ELSE Undefined,
                         parameters |-> [path |-> pathNegU, lineWidth |-> 2,
                                         color |-> "#6366f1"]]]

\* what a call leaves behind: a returned value, or a thrown error
Returned(v) == [threw |-> FALSE, value |-> v]
Thrown(msg) == [threw |-> TRUE, error |-> msg]

\* pullbackAction treating an unknown kind as a selection
pullbackActionLenient(action) ==
  CASE action.type = "Select" -> Returned(pullbackSelect(action))
    [] action.type = "Paint" -> Returned(pullbackPaint(action))
    [] action.type = "Stamp" -> Returned(pullbackStamp(action))
    [] action.type = "Trace" -> Returned(pullbackTrace(action))
    [] OTHER -> Returned(pullbackSelect([type |-> "Select", class |-> action.class,
                                         aperture |-> Undefined]))

pullbackAction(action) ==
  CASE action.type = "Select" -> Returned(pullbackSelect(action))
    [] action.type = "Paint" -> Returned(pullbackPaint(action))
    [] action.type = "Stamp" -> Returned(pullbackStamp(action))
    [] action.type = "Trace" -> Returned(pullbackTrace(action))
    [] OTHER -> Thrown("Unknown action type")

createPullbackResult(action, effectOnU, effectOnNegU) ==
  [action |-> action, effectOnU |-> effectOnU, effectOnNegU |-> effectOnNegU]

\* vertexDirections: mesh.vertices.map(v => Vec3.normalize(v))
vertexDirections(mesh) ==
  [i \in 1..Len(mesh.vertices) |-> Vec3Normalize(mesh.vertices[i])]

\* Vec3.neg and Vec3.approxEq read index 0 of their arguments, so a position
\* that is undefined makes the call throw a TypeError
validateSymmetry(result) ==
  LET effectOnU == result.effectOnU
      effectOnNegU == result.effectOnNegU
  IN  IF effectOnU.type # effectOnNegU.type THEN Returned(FALSE)
      ELSE IF effectOnU.position = Undefined THEN Thrown("TypeError")
      ELSE IF effectOnNegU.position = Undefined THEN Thrown("TypeError")
      ELSE IF ~Vec3ApproxEq(effectOnNegU.position, Vec3Neg(effectOnU.position),
                            SymmetryEpsExp)
           THEN Returned(FALSE)
           ELSE Returned(TRUE)

(***************************************************************************)
(* Parity and paths (src/core/parity.ts)                                   *)
(***************************************************************************)
\* composeParity without the reduction modulo 2
composeParitySum(a, b) == a + b

composeParity(a, b) == (a + b) % 2

invertParity(p) == p

createPath(points) == [points |-> points, parity |-> PARITY_EVEN]

\* antipodalTransitionParity: from and to are unused
antipodalTransitionParity(from, to) == PARITY_ODD

\* appendToPath composing the parity of a transition into the path
appendToPathWithTransition(path, newPoint) ==
  [points |-> Append(path.points, newPoint),
   parity |-> IF path.points = <<>> THEN path.parity
              ELSE composeParity(path.parity,
                                 antipodalTransitionParity(path.points[Len(path.points)],
                                                           newPoint))]

appendToPath(path, newPoint) ==
  [points |-> Append(path.points, newPoint), parity |-> path.parity]

\* concatenatePaths keeping the parity of the first path
concatenatePathsFirstParity(path1, path2) ==
  [points |-> path1.points \o path2.points, parity |-> path1.parity]

concatenatePaths(path1, path2) ==
  [points |-> path1.points \o path2.points,
   parity |-> composeParity(path1.parity, path2.parity)]

\* Array.prototype.reverse
ArrayReverse(arr) == [i \in 1..Len(arr) |-> arr[Len(arr) + 1 - i]]

reversePath(path) ==
  [points |-> ArrayReverse(path.points), parity |-> path.parity]

\* closeLoop taking only the empty path for a trivial loop
closeLoopEmptyOnly(path) ==
  IF Len(path.points) < 1 THEN PARITY_EVEN ELSE path.parity

closeLoop(path) ==
  IF Len(path.points) < 2 THEN PARITY_EVEN ELSE path.parity

isNullHomotopic(path) == path.parity = PARITY_EVEN

(***************************************************************************)
(* Orbit camera (src/core/index.ts)                                        *)
(***************************************************************************)
Max(a, b) == IF a >= b THEN a ELSE b
Min(a, b) == IF a <= b THEN a ELSE b

createOrbitState ==
  [distance |-> OrbitDistance, azimuth |-> 0, polar |-> PiMilli \div 3,
   target |-> IVec(0, 0, 0)]

\* applyOrbitDrag clamping the polar angle from above only
applyOrbitDragNoFloor(orbit, deltaX, deltaY) ==
  [orbit EXCEPT !.azimuth = orbit.azimuth + deltaX,
                !.polar = Min(PiMilli - PolarMarginMilli, orbit.polar + deltaY)]

applyOrbitDrag(orbit, deltaX, deltaY) ==
  [orbit EXCEPT !.azimuth = orbit.azimuth + deltaX,
                !.polar = Max(PolarMarginMilli,
                              Min(PiMilli - PolarMarginMilli, orbit.polar + deltaY))]

(***************************************************************************)
(* Rotations (src/core/index.ts).  A Mat3 is the record                    *)
(* [rat, irr, den, rad]: entry i is (rat[i] + irr[i]/sqrt(rad)) / den, in  *)
(* row-major order.  The angle handed to rotationAxisAngle is kept by its  *)
(* cosine n/sqrt(d), so that Math.cos and Math.sin of it are exact;        *)
(* sin(Math.PI), 1.2e-16 in doubles, is 0.                                 *)
(***************************************************************************)
Zero3 == <<0, 0, 0>>

IDENTITY_MAT3 ==
  [rat |-> <<1, 0, 0, 0, 1, 0, 0, 0, 1>>,
   irr |-> <<0, 0, 0, 0, 0, 0, 0, 0, 0>>,
   den |-> 1, rad |-> 1]

\* cross: [a1*b2 - a2*b1, a2*b0 - a0*b2, a0*b1 - a1*b0], for vectors
\* without residues
Vec3Cross(a, b) ==
  MkVec(<<a.c[2] * b.c[3] - a.c[3] * b.c[2],
          a.c[3] * b.c[1] - a.c[1] * b.c[3],
          a.c[1] * b.c[2] - a.c[2] * b.c[1]>>, Zero3, a.r * b.r)

\* matVecMul: row i of m times v.  The sum is a multiple of 1/sqrt(v.r) when
\* the irrational parts cancel and of 1/sqrt(v.r * m.rad) when the rational
\* parts do, as they do for every matrix and vector of the model.
matVecMul(m, v) ==
  LET Row(part, i) == part[3 * i - 2] * v.c[1] + part[3 * i - 1] * v.c[2]
                        + part[3 * i] * v.c[3]
      P == <<Row(m.rat, 1), Row(m.rat, 2), Row(m.rat, 3)>>
      Q == <<Row(m.irr, 1), Row(m.irr, 2), Row(m.irr, 3)>>
  IN  CASE Q = Zero3 -> Reduce(MkVec(P, Zero3, m.den * m.den * v.r))
        [] Q # Zero3 /\ P = Zero3 ->
              Reduce(MkVec(Q, Zero3, m.den * m.den * v.r * m.rad))

\* Math.acos on [-1, 1], the angle kept by its cosine
AcosExact(x) == [cos |-> [n |-> x.n, d |-> x.d]]

\* Math.PI as such an angle
MathPI == [cos |-> [n |-> -1, d |-> 1]]

\* rotationAxisAngle (Rodrigues).  With [x, y, z] = A/sqrt(ra), c = n/sqrt(d)
\* and s = sqrt((d - n*n)/d):  t*x*y = (1 - c) * Ax*Ay / ra  and
\* s*z = g * Az / sqrt(d)  with g = sqrt((d - n*n)/ra), a whole number for the
\* axis and angle between two unit vectors.  Every entry is put over ra.
rotationAxisAngle(axis, angle) ==
  LET a  == Vec3Normalize(axis)
      x  == a.c[1]
      y  == a.c[2]
      z  == a.c[3]
      ra == a.r
      n  == angle.cos.n
      d  == angle.cos.d
      g  == CASE (d - n * n) % ra = 0
                 /\ Isqrt((d - n * n) \div ra) * Isqrt((d - n * n) \div ra)
                      = (d - n * n) \div ra
                 -> Isqrt((d - n * n) \div ra)
      c  == n * ra                \* c, over ra * sqrt(d)
      sx == g * ra * x            \* s*x, s*y, s*z, over ra * sqrt(d)
      sy == g * ra * y
      sz == g * ra * z
      m  == [rat |-> <<x * x, x * y, x * z,
                       x * y, y * y, y * z,
                       x * z, y * z, z * z>>,
             irr |-> <<c - n * x * x,  -n * x * y - sz,  -n * x * z + sy,
                       -n * x * y + sz,  c - n * y * y,  -n * y * z - sx,
                       -n * x * z - sy,  -n * y * z + sx,  c - n * z * z>>,
             den |-> ra, rad |-> d]
  IN  IF d = 1                    \* a rational cosine: one rational part
      THEN [rat |-> [i \in 1..9 |-> m.rat[i] + m.irr[i]],
            irr |-> IDENTITY_MAT3.irr, den |-> ra, rad |-> 1]
      ELSE m

\* Math.abs(x - k) < 10^-e for k = 1 or k = -1 and |x| <= 1: with m = k*n,
\* 1 - m/sqrt(d) = (d - m*m) / (sqrt(d) * (sqrt(d) + m)), decided on the
\* bounds of the denominator (the residue of x is below every tolerance)
AbsDiffUnitLt(x, k, e) ==
  LET m    == k * x.n
      gap  == x.d - m * m
      root == Isqrt(x.d)
  IN  CASE m <= 0 -> FALSE
        [] m > 0 /\ gap = 0 -> TRUE
        [] m > 0 /\ gap > 0 /\ LtPow10(gap, x.d + m * root, e) -> TRUE
        [] m > 0 /\ gap > 0 /\ ~LtPow10(gap, x.d + m * (root + 1), e) -> FALSE

\* Math.abs(f[0]) < 0.9
AbsXBelowNineTenths(f) == 100 * f.c[1] * f.c[1] < 81 * f.r

rotationBetweenVectors(from, to) ==
  LET f   == Vec3Normalize(from)
      t   == Vec3Normalize(to)
      dot == Vec3Dot(f, t)
  IN  IF AbsDiffUnitLt(dot, 1, ApproxEpsExp)
      THEN IDENTITY_MAT3
      ELSE IF AbsDiffUnitLt(dot, -1, ApproxEpsExp)
      THEN LET perp == IF AbsXBelowNineTenths(f) THEN IVec(1, 0, 0) ELSE IVec(0, 1, 0)
               axis == Vec3Normalize(Vec3Cross(f, perp))
           IN  rotationAxisAngle(axis, MathPI)
      ELSE LET axis  == Vec3Normalize(Vec3Cross(f, t))
               angle == AcosExact(Vec3Clamp(dot, -1, 1))
           IN  rotationAxisAngle(axis, angle)

(***************************************************************************)
(* Calibration (src/unnamed/part_006).  A slider value is in thousandths,  *)
(* the aperture sliderToAperture returns in microradians.                  *)
(***************************************************************************)
DEFAULT_CONFIG ==
  [spanFraction |-> SpanFractionTenths, minAperture |-> MinApertureMilli,
   maxAperture |-> PiMilli \div 2, defaultAperture |-> DefaultApertureMilli]

\* pixelsPerIU = characteristicSizePx / (k * intrinsicUnitSpan), a fraction
createCalibration(viewport) ==
  LET pixelRatio == IF "pixelRatio" \in DOMAIN viewport THEN viewport.pixelRatio ELSE 1
      characteristicSizePx == Min(viewport.width, viewport.height) * pixelRatio
      k == DEFAULT_CONFIG.spanFraction
  IN  [characteristicSizePx |-> characteristicSizePx,
       intrinsicUnitSpan |-> IntrinsicUnitSpan,
       pixelsPerIU |-> [num |-> characteristicSizePx * 10,
                        den |-> k * IntrinsicUnitSpan],
       viewport |-> viewport]

\* sliderToAperture widening the range on a calibrated viewport
sliderToApertureCalibrated(sliderValue, calibration) ==
  LET t == Max(0, Min(SliderOne, sliderValue))
      minAperture == DEFAULT_CONFIG.minAperture
      maxAperture == DEFAULT_CONFIG.maxAperture
      scale == IF calibration = Undefined THEN 0 ELSE calibration.characteristicSizePx
  IN  minAperture * SliderOne + t * (maxAperture - minAperture) + scale

sliderToAperture(sliderValue, calibration) ==
  LET t == Max(0, Min(SliderOne, sliderValue))
      minAperture == DEFAULT_CONFIG.minAperture
      maxAperture == DEFAULT_CONFIG.maxAperture
  IN  minAperture * SliderOne + t * (maxAperture - minAperture)

(***************************************************************************)
(* Shapes (src/unnamed/part_007).  A Mesh is [vertices, indices]; the      *)
(* indices are the numbers the code pushes, counted from 0.  A coordinate  *)
(* is kept as the expression the code evaluates: a sum of terms            *)
(* num/den * f1 * f2 ..., each factor f a cosine or sine of a fraction of  *)
(* a turn or a square root.                                                *)
(***************************************************************************)
Term(num, den, by) == [num |-> num, den |-> den, by |-> by]
Const(num, den) == <<Term(num, den, <<>>)>>
\* Math.cos and Math.sin of 2 * Math.PI * i / n
CosTurn(i, n) == <<Term(1, 1, << <<"cos", i, n>> >>)>>
SinTurn(i, n) == <<Term(1, 1, << <<"sin", i, n>> >>)>>
Scaled(num, den, x) ==
  [t \in DOMAIN x |-> Term(x[t].num * num, x[t].den * den, x[t].by)]
Sum(x, y) == x \o y
Product(x, y) ==
  [n \in 1..(Len(x) * Len(y)) |->
     LET a == x[(n - 1) \div Len(y) + 1]
         b == y[((n - 1) % Len(y)) + 1]
     IN  Term(a.num * b.num, a.den * b.den, a.by \o b.by)]

RECURSIVE Flatten(_)
Flatten(lists) ==
  IF lists = <<>> THEN <<>> ELSE Head(lists) \o Flatten(Tail(lists))

\* what the body pushes for i = 0, 1, ... n - 1, in this order
Loop(n, Body(_)) == Flatten([i \in 1..n |-> Body(i - 1)])

\* s * zHalf, zHalf = 0.005
ZHalf(s) == Const(s * 5, 1000)

makeSphere(detail) ==
  [vertices |->
     Loop(detail + 1, LAMBDA i :
       Loop(detail + 1, LAMBDA j :
         << <<Product(SinTurn(i, 2 * detail), CosTurn(j, detail)),
              Product(SinTurn(i, 2 * detail), SinTurn(j, detail)),
              CosTurn(i, 2 * detail)>> >>)),
   indices |->
     Loop(detail, LAMBDA i :
       Loop(detail, LAMBDA j :
         LET a == (i * (detail + 1)) + j
             b == a + (detail + 1)
         IN  <<a, b, a + 1, b, b + 1, a + 1>>))]

makeDisk(detail) ==
  LET origin == << <<Const(0, 1), Const(0, 1), Const(0, 1)>> >>
      Side(s) ==
        << <<Const(0, 1), Const(0, 1), ZHalf(s)>> >>
        \o Loop(detail + 1, LAMBDA i :
              << <<CosTurn(i, detail), SinTurn(i, detail), ZHalf(s)>> >>)
      Fan(s, start) ==
        Loop(detail, LAMBDA i :
          LET a == start
              b == start + 1 + i
              c == start + 1 + (i + 1)
          IN  IF s = 1 THEN <<a, b, c>> ELSE <<a, c, b>>)
      start1 == Len(origin)
      start2 == Len(origin \o Side(-1))
      rim ==
        Loop(detail, LAMBDA i :
          LET t1 == 2 + i
              t2 == 2 + (i + 1)
              b1 == (detail + 3) + 1 + i
              b2 == (detail + 3) + 1 + (i + 1)
          IN  <<t1, b1, b2, t1, b2, t2>>)
  IN  [vertices |-> origin \o Side(-1) \o Side(1),
       indices |-> Fan(-1, start1) \o Fan(1, start2) \o rim]

makeCircle(detail) ==
  LET inner == Const(96, 100)          \* r - width / 2
      outer == Const(104, 100)         \* r + width / 2
      Side(s) ==
        Loop(detail + 1, LAMBDA i :
          << <<Product(inner, CosTurn(i, detail)),
               Product(inner, SinTurn(i, detail)), ZHalf(s)>>,
             <<Product(outer, CosTurn(i, detail)),
               Product(outer, SinTurn(i, detail)), ZHalf(s)>> >>)
      Band(s, start) ==
        Loop(detail, LAMBDA i :
          LET a == start + i * 2
              b == start + i * 2 + 1
              c == start + (i + 1) * 2
              d == start + (i + 1) * 2 + 1
          IN  IF s = 1 THEN <<a, b, d, a, d, c>> ELSE <<a, d, b, a, c, d>>)
      offset == (detail + 1) * 2
      rim ==
        Loop(detail, LAMBDA i :
          LET tInnerA == i * 2
              tInnerB == (i + 1) * 2
              tOuterA == i * 2 + 1
              tOuterB == (i + 1) * 2 + 1
              bInnerA == offset + tInnerA
              bInnerB == offset + tInnerB
              bOuterA == offset + tOuterA
              bOuterB == offset + tOuterB
          IN  <<tInnerA, bInnerA, bInnerB, tInnerA, bInnerB, tInnerB,
                tOuterA, bOuterB, bOuterA, tOuterA, tOuterB, bOuterB>>)
  IN  [vertices |-> Side(-1) \o Side(1),
       indices |-> Band(-1, 0) \o Band(1, Len(Side(-1))) \o rim]

makeTorus(detail) ==
  LET R == Const(1, 1)
      r == Const(4, 10)
      rDetail == RDetail
  IN  [vertices |->
         Loop(detail + 1, LAMBDA i :
           Loop(rDetail + 1, LAMBDA j :
             << <<Product(Sum(R, Product(r, CosTurn(j, rDetail))), CosTurn(i, detail)),
                  Product(Sum(R, Product(r, CosTurn(j, rDetail))), SinTurn(i, detail)),
                  Product(r, SinTurn(j, rDetail))>> >>)),
       indices |->
         Loop(detail, LAMBDA i :
           Loop(rDetail, LAMBDA j :
             LET a == i * (rDetail + 1) + j
                 b == (i + 1) * (rDetail + 1) + j
             IN  <<a, b, a + 1, b, b + 1, a + 1>>))]

\* the vertices of one side of the triangle: rows i = 0..detail of
\* detail - i + 1 barycentric points
TriangleVertices(detail, s) ==
  LET h  == <<Term(18, 20, << <<"sqrt", 3>> >>)>>     \* (Math.sqrt(3) / 2) * side
      p1 == <<Const(0, 1), Scaled(2, 3, h), Const(0, 1)>>
      p2 == <<Const(-18, 20), Scaled(-1, 3, h), Const(0, 1)>>
      p3 == <<Const(18, 20), Scaled(-1, 3, h), Const(0, 1)>>
      getB(i, j, k, det) ==
        [c \in 1..3 |->
           Sum(Sum(Scaled(i, det, p1[c]), Scaled(j, det, p2[c])), Scaled(k, det, p3[c]))]
  IN  Loop(detail + 1, LAMBDA i :
        Loop(detail - i + 1, LAMBDA j :
          LET k == detail - i - j
              b == getB(i, j, k, detail)
          IN  << <<b[1], b[2], ZHalf(s)>> >>))

RECURSIVE TriangleRowStart(_, _, _)
\* rowStart at the head of row i: start, then nextRowStart of the row before
TriangleRowStart(detail, start, i) ==
  IF i = 0 THEN start
  ELSE TriangleRowStart(detail, start, i - 1) + (detail - (i - 1) + 1)

\* makeTriangle pushing the second triangle of every cell, the last of a row
\* included
makeTriangleUnguarded(detail) ==
  LET Faces(s, start) ==
        Loop(detail, LAMBDA i :
          LET rowStart == TriangleRowStart(detail, start, i)
              nextRowStart == rowStart + (detail - i + 1)
          IN  Loop(detail - i, LAMBDA j :
                LET a == rowStart + j
                    b == rowStart + j + 1
                    c == nextRowStart + j
                    d == nextRowStart + j + 1
                IN  IF s = 1
                    THEN <<a, b, c>> \o <<b, d, c>>
                    ELSE <<a, c, b>> \o <<b, c, d>>))
  IN  [vertices |-> TriangleVertices(detail, -1) \o TriangleVertices(detail, 1),
       indices |-> Faces(-1, 0) \o Faces(1, Len(TriangleVertices(detail, -1)))]

makeTriangle(detail) ==
  LET Faces(s, start) ==
        Loop(detail, LAMBDA i :
          LET rowStart == TriangleRowStart(detail, start, i)
              nextRowStart == rowStart + (detail - i + 1)
          IN  Loop(detail - i, LAMBDA j :
                LET a == rowStart + j
                    b == rowStart + j + 1
                    c == nextRowStart + j
                    d == nextRowStart + j + 1
                IN  IF s = 1
                    THEN <<a, b, c>> \o (IF j < detail - i - 1 THEN <<b, d, c>> ELSE <<>>)
                    ELSE <<a, c, b>> \o (IF j < detail - i - 1 THEN <<b, c, d>> ELSE <<>>)))
  IN  [vertices |-> TriangleVertices(detail, -1) \o TriangleVertices(detail, 1),
       indices |-> Faces(-1, 0) \o Faces(1, Len(TriangleVertices(detail, -1)))]

makeSquare ==
  LET Side(side) ==
        << <<Const(-9, 10), Const(-9, 10), ZHalf(side)>>,
           <<Const(9, 10), Const(-9, 10), ZHalf(side)>>,
           <<Const(9, 10), Const(9, 10), ZHalf(side)>>,
           <<Const(-9, 10), Const(9, 10), ZHalf(side)>> >>
      Faces(side, start) ==
        IF side = 1
        THEN <<start, start + 1, start + 2, start, start + 2, start + 3>>
        ELSE <<start, start + 2, start + 1, start, start + 3, start + 2>>
      walls ==
        Loop(4, LAMBDA i :
          LET a == i
              b == (i + 1) % 4
              c == i + 4
              d == ((i + 1) % 4) + 4
          IN  <<a, c, d, a, d, b>>)
  IN  [vertices |-> Side(-1) \o Side(1),
       indices |-> Faces(-1, 0) \o Faces(1, Len(Side(-1))) \o walls]

makeCube ==
  LET coords == << <<-1, -1, -1>>, <<1, -1, -1>>, <<1, 1, -1>>, <<-1, 1, -1>>,
                   <<-1, -1, 1>>, <<1, -1, 1>>, <<1, 1, 1>>, <<-1, 1, 1>> >>
      faces == << <<0, 1, 2, 3>>, <<4, 5, 6, 7>>, <<0, 1, 5, 4>>,
                  <<1, 2, 6, 5>>, <<2, 3, 7, 6>>, <<3, 0, 4, 7>> >>
  IN  [vertices |->
         [n \in 1..8 |-> [c \in 1..3 |-> Const(coords[n][c] * 8, 10)]],
       indices |->
         Loop(6, LAMBDA i :
           LET f == faces[i + 1]
           IN  IF i % 2 = 0
               THEN <<f[1], f[2], f[3], f[1], f[3], f[4]>>
               ELSE <<f[1], f[3], f[2], f[1], f[4], f[3]>>)]

makePyramid ==
  [vertices |->
     << <<Const(0, 1), Const(0, 1), Const(12, 10)>>,
        <<Const(1, 1), Const(1, 1), Const(-6, 10)>>,
        <<Const(1, 1), Const(-1, 1), Const(-6, 10)>>,
        <<Const(-1, 1), Const(-1, 1), Const(-6, 10)>>,
        <<Const(-1, 1), Const(1, 1), Const(-6, 10)>> >>,
   indices |-> <<0, 1, 2, 0, 2, 3, 0, 3, 4, 0, 4, 1, 1, 3, 2, 1, 4, 3>>]

\* makeShapeMesh(shape, detail = 40): args is <<shape>> or <<shape, detail>>
makeShapeMesh(args) ==
  LET shape  == args[1]
      detail == IF Len(args) >= 2 THEN args[2] ELSE DefaultDetail
  IN  CASE shape = "circle" -> Returned(makeCircle(detail))
        [] shape = "disk" -> Returned(makeDisk(detail))
        [] shape = "triangle" -> Returned(makeTriangle(detail))
        [] shape = "square" -> Returned(makeSquare)
        [] shape = "sphere" -> Returned(makeSphere(detail))
        [] shape = "cube" -> Returned(makeCube)
        [] shape = "pyramid" -> Returned(makePyramid)
        [] shape = "torus" -> Returned(makeTorus(detail))
        [] OTHER -> Thrown("Unknown shape")

(***************************************************************************)
(* Objects.  The functions above are modelled by the values they return.   *)
(* Here the same functions act on a heap: a sequence of objects and        *)
(* arrays, a reference being an index into it.  An object literal          *)
(* ({...state, ...}, [...points]) adds a fresh object; an assignment or an *)
(* in-place array method would rewrite an existing one.  A SelectionState  *)
(* is held by value of its fields; a path object holds a reference to its  *)
(* points array.  Each function returns the heap it leaves and the         *)
(* reference it returns.                                                   *)
(***************************************************************************)
ReturnsOnHeap(heap, ref) == [heap |-> heap, ref |-> ref]

\* return { ... }
ReturnsFresh(heap, obj) == ReturnsOnHeap(Append(heap, obj), Len(heap) + 1)

\* processIntent assigning the new aperture to the state passed in
processIntentOnHeapAssigning(heap, state, intent) ==
  CASE intent.type \in {"ClickQuotient", "ClickSource", "Reset"} ->
         ReturnsFresh(heap, processIntent(heap[state], intent))
    [] intent.type = "SetAperture" ->
         ReturnsOnHeap([heap EXCEPT ![state] = processIntent(@, intent)], state)
    [] OTHER -> ReturnsOnHeap(heap, state)

\* the click, aperture and reset cases return an object literal or
\* createDefaultSelection(); DragOrbit and the default case return state
processIntentOnHeap(heap, state, intent) ==
  CASE intent.type \in {"ClickQuotient", "ClickSource", "SetAperture", "Reset"} ->
         ReturnsFresh(heap, processIntent(heap[state], intent))
    [] OTHER -> ReturnsOnHeap(heap, state)

setColorsOnHeap(heap, state, uColor, negUColor) ==
  ReturnsFresh(heap, setColors(heap[state], uColor, negUColor))

\* the path a reference stands for: its points and its parity
PathAt(heap, path) ==
  [points |-> heap[heap[path].points], parity |-> heap[path].parity]

\* points: [...path.points, newPoint] is a fresh array
appendToPathOnHeap(heap, path, newPoint) ==
  LET withArray == Append(heap, Append(heap[heap[path].points], newPoint))
  IN  ReturnsFresh(withArray, [points |-> Len(withArray), parity |-> heap[path].parity])

\* points: [...path1.points, ...path2.points] is a fresh array
concatenatePathsOnHeap(heap, path1, path2) ==
  LET withArray == Append(heap, heap[heap[path1].points] \o heap[heap[path2].points])
  IN  ReturnsFresh(withArray,
                   [points |-> Len(withArray),
                    parity |-> composeParity(heap[path1].parity, heap[path2].parity)])

\* points: [...path.points].reverse() copies the array, then reverses the
\* copy in place
reversePathOnHeap(heap, path) ==
  LET copied == Append(heap, heap[heap[path].points])
      reversed == [copied EXCEPT ![Len(copied)] = ArrayReverse(@)]
  IN  ReturnsFresh(reversed, [points |-> Len(copied), parity |-> heap[path].parity])

(***************************************************************************)
(* Inputs                                                                  *)
(***************************************************************************)
\* a coordinate <<c, e>>: an integer, or a residue of either sign
Coords == {<<n, 0>> : n \in -MaxCoord..MaxCoord} \cup {<<0, 1>>, <<0, -1>>}

Points ==
  {MkVec(<<a[1], b[1], c[1]>>, <<a[2], b[2], c[2]>>, 1) : a \in Coords, b \in Coords, c \in Coords}

\* points clicked: the integer grid, the zero vector included, and vectors whose
\* leading coordinate is a residue
ClickPoints ==
  {p \in {IVec(x, y, z) : x \in -MaxClickNorm2..MaxClickNorm2,
                            y \in -MaxClickNorm2..MaxClickNorm2,
                            z \in -MaxClickNorm2..MaxClickNorm2} :
       Vec3Norm2(p).num <= MaxClickNorm2}
  \cup {MkVec(<<0, y, 0>>, <<e, 0, 0>>, 1) : y \in {-1, 0, 1}, e \in {-1, 1}}

\* apertures in milliradians: negative, zero, and above pi
Apertures == {-250, 0, 4000}

Colors == {"#00e5bc", "#ff0000"}

\* color pairs handed to setColors: fresh colors, and the defaults swapped
ColorPairs == {<<"#ff0000", "#0000ff">>, <<"#6366f1", "#00e5bc">>}

Deltas == {<<0, 0>>, <<5, -3>>}

KnownIntentTypes == {"ClickQuotient", "ClickSource", "SetAperture", "Reset", "DragOrbit"}

KnownActionTypes == {"Select", "Paint", "Stamp", "Trace"}

TracePoints == {IVec(0, -1, 1)}

Paths == UNION {[1..n -> TracePoints] : n \in 0..MaxPathLen}

Parities == {PARITY_EVEN, PARITY_ODD}

PathPoints == {IVec(1, 0, 0), IVec(0, 1, 0)}

\* paths as createPath builds them and as callers write them down, with
\* either parity
PathsWithParity ==
  {[points |-> pts, parity |-> par] :
     pts \in UNION {[1..n -> PathPoints] : n \in 0..MaxPathLen}, par \in Parities}

SinglePointPaths == {[points |-> <<IVec(0, 0, 1)>>, parity |-> par] : par \in Parities}

\* paths to close: up to one point longer than a traced path, over three
\* points, with either parity stored
LoopPaths ==
  {[points |-> pts, parity |-> par] :
     pts \in UNION {[1..n -> PathPoints \cup {IVec(0, 0, 1)}] : n \in 0..(MaxPathLen + 1)},
     par \in Parities}

\* drag amounts in milliradians: small steps, and steps past either pole
DragDeltasX == {-500, 0, 500}
DragDeltasY == {-10000, -200, 0, 50, 200, 10000}

\* directions on the sphere: the integer vectors of squared length 1 to
\* MaxConeNorm2
ConeVectors ==
  {v \in {IVec(x, y, z) : x \in -MaxConeNorm2..MaxConeNorm2,
                            y \in -MaxConeNorm2..MaxConeNorm2,
                            z \in -MaxConeNorm2..MaxConeNorm2} :
       Vec3Norm2(v).num \in 1..MaxConeNorm2}

\* apertures of a cone: those of the selection, the default, pi/4, twice
\* the angle 0.785, and pi/2
ConeApertures == Apertures \cup {DefaultApertureMilli, 785, 1570, 1571}

\* states a caller may hold: the default, and one with every field changed
HeldStates ==
  {createDefaultSelection,
   [selectedClass |-> classOf(IVec(-1, 1, 0)), aperture |-> -250,
    colors |-> [u |-> "#ff0000", negU |-> "#0000ff"]]}

\* intents of every kind, and one of an unknown kind
HeldIntents ==
  {[type |-> t, point |-> p] : t \in {"ClickQuotient", "ClickSource"},
                               p \in {IVec(0, 0, 0), IVec(-1, 0, 0)}}
  \cup {[type |-> "SetAperture", value |-> a] : a \in {0, 4000}}
  \cup {[type |-> "Reset"], [type |-> "DragOrbit", delta |-> <<5, -3>>],
        [type |-> "Hover"]}

\* a heap holding a state at 1, the first path at 3 with its points at 2,
\* and the second path at 5 with its points at 4
HeldObjects ==
  {[heap |-> <<s, p1.points, [points |-> 2, parity |-> p1.parity],
               p2.points, [points |-> 4, parity |-> p2.parity]>>,
    state |-> 1, path1 |-> 3, path2 |-> 5] :
     s \in HeldStates, p1 \in PathsWithParity, p2 \in SinglePointPaths}

\* points queried against a selection: the directions as integer vectors,
\* not normalized, the zero vector, and a vector with a residue
QueryPoints ==
  ConeVectors \cup {IVec(0, 0, 0), MkVec(<<0, 1, 0>>, <<1, 0, 0>>, 1)}

\* selections reached by a click on a direction and a SetAperture
QueryStates ==
  {[selectedClass |-> classOf(c), aperture |-> a,
    colors |-> createDefaultSelection.colors] :
     c \in ConeVectors, a \in ConeApertures}

\* two event handlers firing in the same tick, each with an intent of its
\* own, over the state the caller stored before them
HandlerInputs ==
  {in \in [prior : HeldStates, intents : HeldIntents \X HeldIntents] :
     in.intents[1] # in.intents[2]}

ShapeIds ==
  {"circle", "disk", "triangle", "square", "sphere", "cube", "pyramid", "torus"}

\* arguments of makeShapeMesh: a shape id or a string that is none, with a
\* detail of 1 to MaxDetail or without one
ShapeArguments ==
  {<<shape>> : shape \in ShapeIds \cup {"hexagon"}}
  \cup {<<shape, detail>> : shape \in ShapeIds \cup {"hexagon"}, detail \in 1..MaxDetail}

\* viewports, with and without a pixel ratio
Viewports ==
  {[width |-> w, height |-> h] : w \in {320, 1920}, h \in {480, 1080}}
  \cup {[width |-> w, height |-> 480, pixelRatio |-> 2] : w \in {320, 1920}}

\* the optional calibration argument: left out, or made from a viewport
Calibrations == {Undefined} \cup {createCalibration(v) : v \in Viewports}

\* slider values in thousandths: below 0, the ends, inside, above 1
Sliders == {-500, 0, 1, 250, 500, 999, 1000, 1500}

\* vectors to rotate between: the integer vectors with coordinates in
\* -1..1, the zero vector among them
RotationVectors == {IVec(x, y, z) : x, y, z \in -1..1}

\* pairs (from, to): all pairs of these, and two pairs a milliradian away
\* from aligned and from antiparallel
RotationPairs ==
  [from : RotationVectors, to : RotationVectors]
  \cup {[from |-> IVec(1, 0, 0), to |-> IVec(1000, 1, 0)],
         [from |-> IVec(1, 0, 0), to |-> IVec(-1000, 1, 0)]}

(***************************************************************************)
(* State: the SelectionState the caller holds, the last call made and what *)
(* it left behind; and, for the functions taken on their own, the          *)
(* arguments (qin) and what the function returned (qout)                   *)
(***************************************************************************)
VARIABLES state, call, ret, qin, qout

vars == <<state, call, ret, qin, qout>>

qVars == <<qin, qout>>

Init ==
  /\ state = createDefaultSelection
  /\ call = [fn |-> "createDefaultSelection"]
  /\ ret = Returned(createDefaultSelection)
  /\ qin = Undefined
  /\ qout = Undefined

\* const [newState, directives] = processAndRender(state, intent); state = newState
Dispatch(intent) ==
  LET result == processAndRender(state, intent)
  IN  /\ call' = [fn |-> "processAndRender", intent |-> intent]
      /\ ret' = Returned(result)
      /\ state' = result[1]
      /\ UNCHANGED qVars

ClickQuotient == \E p \in ClickPoints : Dispatch([type |-> "ClickQuotient", point |-> p])

ClickSource == \E p \in ClickPoints : Dispatch([type |-> "ClickSource", point |-> p])

SetAperture == \E a \in Apertures : Dispatch([type |-> "SetAperture", value |-> a])

Reset == Dispatch([type |-> "Reset"])

DragOrbit == \E d \in Deltas : Dispatch([type |-> "DragOrbit", delta |-> d])

UnknownIntent == Dispatch([type |-> "Hover"])

SetColors ==
  \E pair \in ColorPairs :
     /\ call' = [fn |-> "setColors", uColor |-> pair[1], negUColor |-> pair[2]]
     /\ ret' = Returned(setColors(state, pair[1], pair[2]))
     /\ state' = setColors(state, pair[1], pair[2])
     /\ UNCHANGED qVars

\* const result = pullbackAction(action), on the selected class or on a path
Pull(action) ==
  /\ call' = [fn |-> "pullbackAction", action |-> action]
  /\ ret' = pullbackAction(action)
  /\ UNCHANGED <<state, qin, qout>>

PullbackSelect ==
  Pull([type |-> "Select", class |-> state.selectedClass, aperture |-> state.aperture])

PullbackPaint ==
  \E color \in Colors :
     Pull([type |-> "Paint", class |-> state.selectedClass, radius |-> 1, color |-> color])

PullbackStamp ==
  Pull([type |-> "Stamp", class |-> state.selectedClass, pattern |-> "star"])

PullbackTrace == \E path \in Paths : Pull([type |-> "Trace", path |-> path])

PullbackUnknown == Pull([type |-> "Erase", class |-> state.selectedClass])

Next ==
  \/ ClickQuotient
  \/ ClickSource
  \/ SetAperture
  \/ Reset
  \/ DragOrbit
  \/ UnknownIntent
  \/ SetColors
  \/ PullbackSelect
  \/ PullbackPaint
  \/ PullbackStamp
  \/ PullbackTrace
  \/ PullbackUnknown

Spec == Init /\ [][Next]_vars

(***************************************************************************)
(* The quotient functions on their own: any vector of the grid, then the   *)
(* classes of the vector and of its negation and their comparison          *)
(***************************************************************************)
InitQuotient ==
  /\ state = createDefaultSelection
  /\ call = [fn |-> "createDefaultSelection"]
  /\ ret = Returned(createDefaultSelection)
  /\ qin \in Points
  /\ qout = Undefined

\* class1 = classOf(v); class2 = classOf(Vec3.neg(v)); classEquals(class1, class2)
AntipodalClasses ==
  /\ qout = Undefined
  /\ qout' = [class1 |-> classOf(qin),
              class2 |-> classOf(Vec3Neg(qin)),
              equal |-> classEquals(classOf(qin), classOf(Vec3Neg(qin)))]
  /\ UNCHANGED <<state, call, ret, qin>>

NextQuotient == AntipodalClasses

SpecQuotient == InitQuotient /\ [][NextQuotient]_vars

(***************************************************************************)
(* The pure functions on their own: qin holds the arguments, qout what the *)
(* function applied to them returned                                       *)
(***************************************************************************)
PureInit(inputs) ==
  /\ state = createDefaultSelection
  /\ call = [fn |-> "createDefaultSelection"]
  /\ ret = Returned(createDefaultSelection)
  /\ qin \in inputs
  /\ qout = Undefined

Apply(result) ==
  /\ qout = Undefined
  /\ qout' = result
  /\ UNCHANGED <<state, call, ret, qin>>

Applied(fn) == qout # Undefined /\ qout.fn = fn

(***************************************************************************)
(* Parity and paths: three paths of either parity, then one of the parity  *)
(* or path functions applied to them                                       *)
(***************************************************************************)
InitParity ==
  PureInit([path1 : PathsWithParity, path2 : PathsWithParity, path3 : SinglePointPaths])

ComposeParity ==
  LET a == qin.path1.parity
      b == qin.path2.parity
      c == qin.path3.parity
  IN  Apply([fn |-> "composeParity",
             ab |-> composeParity(a, b),
             ba |-> composeParity(b, a),
             ab_c |-> composeParity(composeParity(a, b), c),
             a_bc |-> composeParity(a, composeParity(b, c)),
             aEven |-> composeParity(a, PARITY_EVEN),
             evenA |-> composeParity(PARITY_EVEN, a),
             aInv |-> composeParity(a, invertParity(a))])

CreatePath ==
  Apply([fn |-> "createPath", value |-> createPath(qin.path1.points)])

AppendToPath ==
  \E newPoint \in PathPoints :
     Apply([fn |-> "appendToPath", newPoint |-> newPoint,
            value |-> appendToPath(qin.path1, newPoint)])

ConcatenatePaths ==
  Apply([fn |-> "concatenatePaths",
         value |-> concatenatePaths(qin.path1, qin.path2),
         left |-> concatenatePaths(concatenatePaths(qin.path1, qin.path2), qin.path3),
         right |-> concatenatePaths(qin.path1, concatenatePaths(qin.path2, qin.path3))])

ReversePath ==
  Apply([fn |-> "reversePath",
         value |-> reversePath(qin.path1),
         twice |-> reversePath(reversePath(qin.path1))])

NextParity ==
  \/ ComposeParity
  \/ CreatePath
  \/ AppendToPath
  \/ ConcatenatePaths
  \/ ReversePath

SpecParity == InitParity /\ [][NextParity]_vars

(***************************************************************************)
(* The orbit camera: qout is the OrbitState the caller holds, qin the call *)
(* that returned it                                                        *)
(***************************************************************************)
InitOrbit ==
  /\ state = createDefaultSelection
  /\ call = [fn |-> "createDefaultSelection"]
  /\ ret = Returned(createDefaultSelection)
  /\ qin = [fn |-> "createOrbitState"]
  /\ qout = createOrbitState

\* orbit = applyOrbitDrag(orbit, deltaX, deltaY)
OrbitDrag ==
  \E deltaX \in DragDeltasX, deltaY \in DragDeltasY :
     /\ Abs(qout.azimuth + deltaX) <= MaxAzimuthMilli
     /\ qin' = [fn |-> "applyOrbitDrag", orbit |-> qout,
                deltaX |-> deltaX, deltaY |-> deltaY]
     /\ qout' = applyOrbitDrag(qout, deltaX, deltaY)
     /\ UNCHANGED <<state, call, ret>>

NextOrbit == OrbitDrag

SpecOrbit == InitOrbit /\ [][NextOrbit]_vars

(***************************************************************************)
(* Cones and distances: a unit point, the vector of a class center and an  *)
(* aperture, then one of the cone or distance functions applied to them    *)
(***************************************************************************)
InitCone ==
  PureInit({[point |-> Vec3Normalize(p), center |-> c, aperture |-> a] :
              p \in ConeVectors, c \in ConeVectors, a \in ConeApertures})

PointInQuotientCone ==
  LET center == classOf(qin.center)
  IN  Apply([fn |-> "pointInQuotientCone",
             value |-> pointInQuotientCone(qin.point, center, qin.aperture),
             antipodal |-> pointInQuotientCone(Vec3Neg(qin.point), center, qin.aperture)])

QuotientConeWeight ==
  LET center == classOf(qin.center)
  IN  Apply([fn |-> "quotientConeWeight",
             value |-> quotientConeWeight(qin.point, center, qin.aperture),
             antipodal |-> quotientConeWeight(Vec3Neg(qin.point), center, qin.aperture),
             minAngle |-> MathMin(Vec3Angle(qin.point, center.representatives[1]),
                                  Vec3Angle(qin.point, center.representatives[2]))])

QuotientDistance ==
  LET a == classOf(qin.center)
      b == classOf(qin.point)
  IN  Apply([fn |-> "quotientDistance",
             ab |-> quotientDistance(a, b),
             ba |-> quotientDistance(b, a),
             aa |-> quotientDistance(a, a),
             antipodal |-> quotientDistance(a, classOf(Vec3Neg(qin.center))),
             otherReps |-> {quotientDistance(classOf(v), classOf(w)) :
                              v \in {qin.center, Vec3Neg(qin.center)},
                              w \in {qin.point, Vec3Neg(qin.point)}}])

NextCone ==
  \/ PointInQuotientCone
  \/ QuotientConeWeight
  \/ QuotientDistance

SpecCone == InitCone /\ [][NextCone]_vars

(***************************************************************************)
(* Degenerate vectors: any vector of the grid, the zero vector and the     *)
(* residues included, then normalized, classified, clicked, or taken as a  *)
(* mesh vertex                                                             *)
(***************************************************************************)
InitDegenerate == PureInit(Points)

Normalize ==
  Apply([fn |-> "Vec3.normalize", value |-> Vec3Normalize(qin)])

ClassOf ==
  Apply([fn |-> "classOf", value |-> classOf(qin)])

ClickVector ==
  \E type \in {"ClickQuotient", "ClickSource"} :
     Apply([fn |-> "processIntent", type |-> type,
            value |-> processIntent(createDefaultSelection,
                                    [type |-> type, point |-> qin])])

\* a mesh whose vertices are the vector, the zero vector and [2, 0, 0]
VertexDirections ==
  Apply([fn |-> "vertexDirections",
         value |-> vertexDirections([vertices |-> <<qin, IVec(0, 0, 0), IVec(2, 0, 0)>>,
                                     indices |-> <<>>])])

NextDegenerate ==
  \/ Normalize
  \/ ClassOf
  \/ ClickVector
  \/ VertexDirections

SpecDegenerate == InitDegenerate /\ [][NextDegenerate]_vars

(***************************************************************************)
(* Objects passed in: qin is the heap the caller holds with its references *)
(* to a state and two paths, qout the heap a call leaves and the reference *)
(* it returns                                                              *)
(***************************************************************************)
InitHeld == PureInit(HeldObjects)

Called(fn, args, result) ==
  Apply([fn |-> fn, args |-> args, heap |-> result.heap, ref |-> result.ref])

CallProcessIntent ==
  \E intent \in HeldIntents :
     Called("processIntent", intent, processIntentOnHeap(qin.heap, qin.state, intent))

CallSetColors ==
  \E pair \in ColorPairs :
     Called("setColors", pair, setColorsOnHeap(qin.heap, qin.state, pair[1], pair[2]))

CallAppendToPath ==
  \E newPoint \in PathPoints :
     Called("appendToPath", newPoint, appendToPathOnHeap(qin.heap, qin.path1, newPoint))

CallConcatenatePaths ==
  Called("concatenatePaths", <<>>, concatenatePathsOnHeap(qin.heap, qin.path1, qin.path2))

CallReversePath ==
  Called("reversePath", <<>>, reversePathOnHeap(qin.heap, qin.path1))

NextHeld ==
  \/ CallProcessIntent
  \/ CallSetColors
  \/ CallAppendToPath
  \/ CallConcatenatePaths
  \/ CallReversePath

SpecHeld == InitHeld /\ [][NextHeld]_vars

(***************************************************************************)
(* Selection queries: a selection and a point, then a query of the         *)
(* selection and the cone primitive it is built on                         *)
(***************************************************************************)
InitQuery == PureInit([state : QueryStates, point : QueryPoints])

IsPointHighlighted ==
  Apply([fn |-> "isPointHighlighted",
         value |-> isPointHighlighted(qin.state, qin.point),
         primitive |-> pointInQuotientCone(Vec3Normalize(qin.point),
                                           qin.state.selectedClass, qin.state.aperture)])

SelectionWeight ==
  Apply([fn |-> "selectionWeight",
         value |-> selectionWeight(qin.state, qin.point),
         primitive |-> quotientConeWeight(Vec3Normalize(qin.point),
                                          qin.state.selectedClass, qin.state.aperture)])

NextQuery ==
  \/ IsPointHighlighted
  \/ SelectionWeight

SpecQuery == InitQuery /\ [][NextQuery]_vars

(***************************************************************************)
(* Calibration: a slider value and two calibrations, then the aperture of  *)
(* the slider value under each                                             *)
(***************************************************************************)
InitCalibration ==
  PureInit([slider : Sliders, c1 : Calibrations, c2 : Calibrations])

SliderToAperture ==
  Apply([fn |-> "sliderToAperture",
         aperture1 |-> sliderToAperture(qin.slider, qin.c1),
         aperture2 |-> sliderToAperture(qin.slider, qin.c2)])

NextCalibration == SliderToAperture

SpecCalibration == InitCalibration /\ [][NextCalibration]_vars

(***************************************************************************)
(* Rotations: a pair of vectors, then the matrix between them and the      *)
(* matrix applied to the first vector                                      *)
(***************************************************************************)
InitRotation == PureInit(RotationPairs)

RotationBetweenVectors ==
  LET rot == rotationBetweenVectors(qin.from, qin.to)
  IN  Apply([fn |-> "rotationBetweenVectors",
             value |-> rot,
             result |-> matVecMul(rot, Vec3Normalize(qin.from))])

NextRotation == RotationBetweenVectors

SpecRotation == InitRotation /\ [][NextRotation]_vars

(***************************************************************************)
(* Two handlers over the one SelectionState the caller owns (state).  A    *)
(* handler calls processIntent with the state it finds stored and later    *)
(* stores what the call returned; qout holds each handler's position, the  *)
(* state it passed and the state it got back, and the order of the stores. *)
(***************************************************************************)
Handlers == {1, 2}

InitHandlers ==
  /\ qin \in HandlerInputs
  /\ state = qin.prior
  /\ call = [fn |-> "createDefaultSelection"]
  /\ ret = Returned(createDefaultSelection)
  /\ qout = [pc |-> <<"idle", "idle">>,
             passed |-> <<Undefined, Undefined>>,
             returned |-> <<Undefined, Undefined>>,
             stored |-> <<>>]

\* const next = processIntent(state, intent)
HandlerCall(h) ==
  /\ qout.pc[h] = "idle"
  /\ qout' = [qout EXCEPT !.pc[h] = "called",
                          !.passed[h] = state,
                          !.returned[h] = processIntent(state, qin.intents[h])]
  /\ UNCHANGED <<state, call, ret, qin>>

\* state = next
HandlerStore(h) ==
  /\ qout.pc[h] = "called"
  /\ state' = qout.returned[h]
  /\ qout' = [qout EXCEPT !.pc[h] = "stored", !.stored = Append(@, h)]
  /\ UNCHANGED <<call, ret, qin>>

NextHandlers ==
  \/ \E h \in Handlers : HandlerCall(h)
  \/ \E h \in Handlers : HandlerStore(h)

SpecHandlers == InitHandlers /\ [][NextHandlers]_vars

(***************************************************************************)
(* Loops: a path as a caller may write it down, then what closing it or    *)
(* testing it returns                                                      *)
(***************************************************************************)
InitLoop == PureInit(LoopPaths)

CloseLoop == Apply([fn |-> "closeLoop", value |-> closeLoop(qin)])

IsNullHomotopic == Apply([fn |-> "isNullHomotopic", value |-> isNullHomotopic(qin)])

NextLoop == CloseLoop \/ IsNullHomotopic

SpecLoop == InitLoop /\ [][NextLoop]_vars

(***************************************************************************)
(* Intents applied serially from the default state: each call is given the *)
(* state the call before it returned; qin is the list of the intents       *)
(* applied so far                                                          *)
(***************************************************************************)
InitSerial ==
  /\ state = createDefaultSelection
  /\ call = [fn |-> "createDefaultSelection"]
  /\ ret = Returned(createDefaultSelection)
  /\ qin = <<>>
  /\ qout = Undefined

\* state = processIntent(state, intent)
ApplyIntent ==
  \E intent \in HeldIntents :
     /\ Len(qin) < MaxIntents
     /\ state' = processIntent(state, intent)
     /\ call' = [fn |-> "processIntent", intent |-> intent]
     /\ ret' = Returned(processIntent(state, intent))
     /\ qin' = Append(qin, intent)
     /\ UNCHANGED qout

NextSerial == ApplyIntent

SpecSerial == InitSerial /\ [][NextSerial]_vars

(***************************************************************************)
(* Paths built by the path operations alone: qin holds two paths, each     *)
(* made by createPath and then appended to, reversed, or replaced by the   *)
(* concatenation of the two; qout names the last operation                 *)
(***************************************************************************)
PointLists == UNION {[1..n -> PathPoints] : n \in 0..MaxPathLen}

InitBuilt ==
  /\ state = createDefaultSelection
  /\ call = [fn |-> "createDefaultSelection"]
  /\ ret = Returned(createDefaultSelection)
  /\ qin \in {<<createPath(a), createPath(b)>> : a, b \in PointLists}
  /\ qout = Undefined

Built(fn, slot, path) ==
  /\ Len(path.points) <= MaxPathLen + 1
  /\ qin' = [qin EXCEPT ![slot] = path]
  /\ qout' = [fn |-> fn]
  /\ UNCHANGED <<state, call, ret>>

BuildCreate ==
  \E slot \in 1..2, points \in PointLists :
     Built("createPath", slot, createPath(points))

BuildAppend ==
  \E slot \in 1..2, newPoint \in PathPoints :
     Built("appendToPath", slot, appendToPath(qin[slot], newPoint))

BuildConcatenate ==
  \E slot, first, second \in 1..2 :
     Built("concatenatePaths", slot, concatenatePaths(qin[first], qin[second]))

BuildReverse ==
  \E slot \in 1..2 : Built("reversePath", slot, reversePath(qin[slot]))

NextBuilt == BuildCreate \/ BuildAppend \/ BuildConcatenate \/ BuildReverse

SpecBuilt == InitBuilt /\ [][NextBuilt]_vars

(***************************************************************************)
(* Shapes: the arguments, then the result of a first call and of a second  *)
(* call with the same arguments                                            *)
(***************************************************************************)
InitShape == PureInit(ShapeArguments)

MakeShapeMesh ==
  Apply([fn |-> "makeShapeMesh", calls |-> <<makeShapeMesh(qin)>>])

MakeShapeMeshAgain ==
  /\ Applied("makeShapeMesh")
  /\ Len(qout.calls) = 1
  /\ qout' = [qout EXCEPT !.calls = Append(@, makeShapeMesh(qin))]
  /\ UNCHANGED <<state, call, ret, qin>>

NextShape == MakeShapeMesh \/ MakeShapeMeshAgain

SpecShape == InitShape /\ [][NextShape]_vars

(***************************************************************************)
(* Weight and membership of one point in one cone                          *)
(***************************************************************************)
InitMembership == InitCone

WeightAndMembership ==
  LET center == classOf(qin.center)
  IN  Apply([fn |-> "quotientConeWeight, pointInQuotientCone",
             weight |-> quotientConeWeight(qin.point, center, qin.aperture),
             inside |-> pointInQuotientCone(qin.point, center, qin.aperture),
             minAngle |-> MathMin(Vec3Angle(qin.point, center.representatives[1]),
                                  Vec3Angle(qin.point, center.representatives[2]))])

NextMembership == WeightAndMembership

SpecMembership == InitMembership /\ [][NextMembership]_vars

(***************************************************************************)
(* Claims                                                                  *)
(***************************************************************************)
DefaultState ==
  [selectedClass |-> classOf(IVec(0, 1, 0)),
   aperture |-> 400,
   colors |-> [u |-> "#00e5bc", negU |-> "#6366f1"]]

Zero == IVec(0, 0, 0)

IsIntent(types) == call.fn = "processAndRender" /\ call.intent.type \in types

Click(kind, p) == [type |-> kind, point |-> p]

\* every field of the state differs from the default
FarFromDefault(s) ==
  /\ s.selectedClass # DefaultState.selectedClass
  /\ s.aperture # DefaultState.aperture
  /\ s.colors.u # DefaultState.colors.u
  /\ s.colors.negU # DefaultState.colors.negU

\* C1: in every reachable selection state the second representative of the
\* selected class is the negation of the first, the first is the canonical
\* vector, and validatePairing returns true.
C1_PairingInvariant ==
  LET reps == state.selectedClass.representatives
  IN  /\ reps[2] = Vec3Neg(reps[1])
      /\ reps[1] = state.selectedClass.canonical
      /\ validatePairing(state) = TRUE

\* C1 witness: a click on a vector that classOf has to flip, after the
\* aperture and the colors were changed.
C1_Witness ==
  /\ IsIntent({"ClickQuotient", "ClickSource"})
  /\ call.intent.point = IVec(-1, 0, 0)
  /\ state.selectedClass.representatives = <<IVec(1, 0, 0), IVec(-1, 0, 0)>>
  /\ FarFromDefault(state)

\* the coordinate of c that decides the sign: the first one above 1e-12, 0 if none
FirstSignificant(c) ==
  IF AbsGt(c, 1, 12) THEN 1
  ELSE IF AbsGt(c, 2, 12) THEN 2
  ELSE IF AbsGt(c, 3, 12) THEN 3
  ELSE 0

SignRule(c) == FirstSignificant(c) # 0 => NonNeg(c, FirstSignificant(c))

\* C2: the canonical vector of classOf(v) has its first coordinate above 1e-12
\* in magnitude non-negative, for v and for -v; classOf([-1,0,0]).canonical is
\* [1,0,0] and classOf([1,2,3]).canonical keeps a positive x.
C2_CanonicalSignRule ==
  qout # Undefined =>
     /\ SignRule(qout.class1.canonical)
     /\ SignRule(qout.class2.canonical)
     /\ (qin = IVec(-1, 0, 0) => qout.class1.canonical = IVec(1, 0, 0))
     /\ (qin = IVec(1, 2, 3) => qout.class1.canonical.c[1] > 0)

\* C2 witness: a vector whose x is a negative residue and whose y is negative:
\* y decides, the vector is flipped, and x ends up positive but below 1e-12.
C2_Witness ==
  /\ qout # Undefined
  /\ qin = MkVec(<<0, -2, 1>>, <<-1, 0, 0>>, 1)
  /\ qout.class1.canonical = MkVec(<<0, 2, -1>>, <<1, 0, 0>>, 5)

\* C3: classEquals(classOf(v), classOf(-v)) is true for every vector v.
C3_AntipodesSameClass ==
  qout # Undefined => qout.equal = TRUE

\* C3 witness: the classes of [1,2,3] and [-1,-2,-3] compared.
C3_Witness ==
  /\ qout # Undefined
  /\ qin = IVec(-1, -2, -3)
  /\ qout.class2.canonical = MkVec(<<1, 2, 3>>, <<0, 0, 0>>, 14)
  /\ qout.equal = TRUE

\* C4: ClickQuotient and ClickSource with the same point give equal states:
\* the selected class is classOf(point), aperture and colors are kept.
C4_ClickKindsAgree ==
  /\ \A p \in ClickPoints :
        LET q == processIntent(state, Click("ClickQuotient", p))
            r == processIntent(state, Click("ClickSource", p))
        IN  /\ q = r
            /\ q.selectedClass = classOf(p)
            /\ q.aperture = state.aperture
            /\ q.colors = state.colors
  /\ (IsIntent({"ClickQuotient", "ClickSource"}) =>
        /\ state.selectedClass = classOf(call.intent.point)
        /\ ret.value[1] = state)

\* C4 witness: a ClickSource has selected a non-axis class while aperture and
\* colors keep their earlier, non-default values.
C4_Witness ==
  /\ IsIntent({"ClickSource"})
  /\ call.intent.point = IVec(-1, 1, 0)
  /\ state.selectedClass.canonical = MkVec(<<1, -1, 0>>, <<0, 0, 0>>, 2)
  /\ FarFromDefault(state)

\* C5: SetAperture stores exactly the value given (negative, zero, above pi:
\* no clamping) and keeps the selected class and the colors.
C5_SetApertureExact ==
  /\ \A a \in Apertures :
        processIntent(state, [type |-> "SetAperture", value |-> a])
          = [selectedClass |-> state.selectedClass, aperture |-> a, colors |-> state.colors]
  /\ (IsIntent({"SetAperture"}) => state.aperture = call.intent.value)

\* C5 witness: a negative aperture was stored on a state with a non-default
\* class and non-default colors.
C5_Witness ==
  /\ IsIntent({"SetAperture"})
  /\ call.intent.value < 0
  /\ state.aperture = call.intent.value
  /\ FarFromDefault(state)

\* C6: Reset gives the default state (classOf([0,1,0]), aperture 0.4, colors
\* #00e5bc / #6366f1) from any state.
C6_ResetRestoresDefault ==
  /\ processIntent(state, [type |-> "Reset"]) = DefaultState
  /\ createDefaultSelection = DefaultState
  /\ (IsIntent({"Reset"}) => state = DefaultState)

\* C6 witness: a state that differs from the default in class, aperture and
\* both colors, which Reset maps to the default.
C6_Witness ==
  /\ FarFromDefault(state)
  /\ processAndRender(state, [type |-> "Reset"])[1] = DefaultState

\* C7: DragOrbit returns the state it was given, whatever the delta.
C7_DragOrbitKeepsState ==
  /\ \A d \in Deltas :
        processIntent(state, [type |-> "DragOrbit", delta |-> d]) = state
  /\ (IsIntent({"DragOrbit"}) => ret.value[1] = state)

\* C7 witness: a drag with a non-zero delta has left a non-default state as it was.
C7_Witness ==
  /\ IsIntent({"DragOrbit"})
  /\ call.intent.delta # <<0, 0>>
  /\ FarFromDefault(state)

\* C8: an intent of unknown type leaves the state unchanged and nothing is
\* thrown; pullbackAction throws, and returns no result, exactly for the
\* actions whose type is none of Select, Paint, Stamp, Trace.
C8_UnknownTagsAsymmetric ==
  /\ processIntent(state, [type |-> "Hover"]) = state
  /\ (IsIntent({"Hover"}) => ~ret.threw /\ ret.value[1] = state)
  /\ (call.fn = "pullbackAction" =>
        /\ ret.threw <=> call.action.type \notin KnownActionTypes
        /\ ret.threw => "value" \notin DOMAIN ret)

\* C8 witness: pullbackAction has thrown on an unknown action type while the
\* selection is not the default one.
C8_Witness ==
  /\ call.fn = "pullbackAction"
  /\ call.action.type = "Erase"
  /\ ret.threw
  /\ FarFromDefault(state)

\* C9: generateRenderDirectives gives exactly two spotlights and one marker
\* for every state and aperture: spotlight 0 at representatives[0] in colors.u,
\* spotlight 1 at representatives[1] in colors.negU, both with the aperture,
\* and the marker with the class, the aperture and both colors.
C9_RenderShape ==
  LET d == generateRenderDirectives(state)
      reps == state.selectedClass.representatives
  IN  /\ Len(d.spotlights) = 2
      /\ Len(d.quotientMarkers) = 1
      /\ d.spotlights[1] = [direction |-> reps[1], color |-> state.colors.u,
                            aperture |-> state.aperture]
      /\ d.spotlights[2] = [direction |-> reps[2], color |-> state.colors.negU,
                            aperture |-> state.aperture]
      /\ d.quotientMarkers[1] = [class |-> state.selectedClass,
                                 aperture |-> state.aperture,
                                 colors |-> <<state.colors.u, state.colors.negU>>]
      /\ (call.fn = "processAndRender" => ret.value[2] = d)

\* C9 witness: directives rendered for a negative aperture, with the default
\* colors swapped.
C9_Witness ==
  /\ call.fn = "processAndRender"
  /\ state.aperture < 0
  /\ state.colors = [u |-> "#6366f1", negU |-> "#00e5bc"]
  /\ Len(ret.value[2].spotlights) = 2
  /\ ret.value[2].spotlights[1].color = "#6366f1"

SpotlightsAt(d, u, negU) ==
  /\ Len(d.spotlights) = 2
  /\ d.spotlights[1].direction = u
  /\ d.spotlights[2].direction = negU
  /\ Len(d.quotientMarkers) = 1

\* C10: clicking a non-zero point and clicking its antipode give the same
\* state and the same directives, with the spotlights at classOf(p).canonical
\* and its negation; from the default state a click on [1,0,0] or [-1,0,0]
\* gives spotlights at [1,0,0] and [-1,0,0] and one marker.
C10_AntipodalClicks ==
  /\ \A p \in ClickPoints \ {Zero} :
        LET a == processAndRender(state, Click("ClickQuotient", p))
            b == processAndRender(state, Click("ClickQuotient", Vec3Neg(p)))
        IN  /\ a = b
            /\ SpotlightsAt(a[2], classOf(p).canonical, Vec3Neg(classOf(p).canonical))
  /\ (state = DefaultState =>
        \A p \in {IVec(1, 0, 0), IVec(-1, 0, 0)} :
           SpotlightsAt(processAndRender(state, Click("ClickQuotient", p))[2],
                        IVec(1, 0, 0), IVec(-1, 0, 0)))

\* C10 witness: from the default aperture and colors, a ClickQuotient on
\* [-1,0,0] has put the spotlights at [1,0,0] and [-1,0,0].
C10_Witness ==
  /\ IsIntent({"ClickQuotient"})
  /\ call.intent.point = IVec(-1, 0, 0)
  /\ state.aperture = DefaultState.aperture
  /\ state.colors = DefaultState.colors
  /\ SpotlightsAt(ret.value[2], IVec(1, 0, 0), IVec(-1, 0, 0))

\* hand-built pullback results: every pairing of two effect types with two
\* positions taken from a point, its negation, a point within 1e-6 of the
\* negation, and an unrelated point
HandBuiltEffects ==
  {[type |-> t, position |-> p, parameters |-> Undefined] :
     t \in {"spotlight", "paint"},
     p \in {IVec(1, 0, 0), IVec(-1, 0, 0), MkVec(<<-1, 0, 0>>, <<0, 1, 0>>, 1),
            IVec(0, 1, 0)}}

HandBuiltResults ==
  {createPullbackResult([type |-> "Select"], eu, en) :
     eu \in HandBuiltEffects, en \in HandBuiltEffects}

IsNegationOf(neg, pos) ==
  /\ pos # Undefined
  /\ neg # Undefined
  /\ neg = Vec3Neg(pos)

\* C11: every result pullbackAction returns, for Select, Paint, Stamp and for
\* Trace with a path of any length, has the same effect type on both
\* representatives, has effectOnNegU.position equal to the negation of
\* effectOnU.position, and makes validateSymmetry return true.
C11_PullbackSymmetric ==
  (call.fn = "pullbackAction" /\ ~ret.threw) =>
     /\ ret.value.effectOnU.type = ret.value.effectOnNegU.type
     /\ IsNegationOf(ret.value.effectOnNegU.position, ret.value.effectOnU.position)
     /\ validateSymmetry(ret.value) = Returned(TRUE)

\* C12: the validation helpers never throw: validatePairing returns a boolean
\* for every state, and validateSymmetry returns a boolean for every result
\* pullbackAction produces and for every hand-built result, false when the
\* effect types differ or the positions are not antipodal within 1e-6.
C12_ValidatorsNeverThrow ==
  /\ validatePairing(state) \in BOOLEAN
  /\ (call.fn = "pullbackAction" /\ ~ret.threw) =>
        validateSymmetry(ret.value) \in {Returned(TRUE), Returned(FALSE)}
  /\ \A r \in HandBuiltResults :
        LET v == validateSymmetry(r)
            mismatch == \/ r.effectOnU.type # r.effectOnNegU.type
                        \/ ~Vec3ApproxEq(r.effectOnNegU.position,
                                         Vec3Neg(r.effectOnU.position), SymmetryEpsExp)
        IN  /\ v \in {Returned(TRUE), Returned(FALSE)}
            /\ v.value = ~mismatch

Xor(a, b) == IF a = b THEN 0 ELSE 1

\* C13: composeParity on {EVEN, ODD} is the group Z2: the result is EVEN or
\* ODD, it does not depend on the order or the grouping of the arguments,
\* EVEN is the identity, an element composed with its invertParity image is
\* EVEN, ODD composed with ODD is EVEN, and the result is the XOR of the
\* arguments.
C13_ParityGroup ==
  Applied("composeParity") =>
     LET a == qin.path1.parity
         b == qin.path2.parity
     IN  /\ qout.ab \in Parities
         /\ qout.ab = qout.ba
         /\ qout.ab_c = qout.a_bc
         /\ qout.aEven = a /\ qout.evenA = a
         /\ qout.aInv = PARITY_EVEN
         /\ (a = PARITY_ODD /\ b = PARITY_ODD => qout.ab = PARITY_EVEN)
         /\ qout.ab = Xor(a, b)

\* C13 witness: ODD has been composed with ODD (and with a third ODD).
C13_Witness ==
  /\ Applied("composeParity")
  /\ qin.path1.parity = PARITY_ODD
  /\ qin.path2.parity = PARITY_ODD
  /\ qin.path3.parity = PARITY_ODD
  /\ qout.ab = PARITY_EVEN
  /\ qout.ab_c = PARITY_ODD

\* C14: createPath gives parity EVEN; appendToPath puts the point at the end
\* and keeps the parity; concatenatePaths gives the points of the first path
\* followed by those of the second with the composed parity, the same parity
\* for either grouping of three paths; reversePath reverses the points and
\* keeps the parity, and reversing twice gives back the points and parity.
C14_PathOperations ==
  /\ Applied("createPath") =>
        /\ qout.value.parity = PARITY_EVEN
        /\ qout.value.points = qin.path1.points
  /\ Applied("appendToPath") =>
        /\ Len(qout.value.points) = Len(qin.path1.points) + 1
        /\ qout.value.points[Len(qout.value.points)] = qout.newPoint
        /\ SubSeq(qout.value.points, 1, Len(qin.path1.points)) = qin.path1.points
        /\ qout.value.parity = qin.path1.parity
  /\ Applied("concatenatePaths") =>
        /\ Len(qout.value.points) = Len(qin.path1.points) + Len(qin.path2.points)
        /\ \A i \in 1..Len(qin.path1.points) :
              qout.value.points[i] = qin.path1.points[i]
        /\ \A i \in 1..Len(qin.path2.points) :
              qout.value.points[Len(qin.path1.points) + i] = qin.path2.points[i]
        /\ qout.value.parity = Xor(qin.path1.parity, qin.path2.parity)
        /\ qout.left.parity = qout.right.parity
  /\ Applied("reversePath") =>
        /\ Len(qout.value.points) = Len(qin.path1.points)
        /\ \A i \in 1..Len(qin.path1.points) :
              qout.value.points[i] = qin.path1.points[Len(qin.path1.points) + 1 - i]
        /\ qout.value.parity = qin.path1.parity
        /\ qout.twice = qin.path1

\* C14 witness: an ODD path of two different points has been concatenated
\* with an ODD path, giving an EVEN path that ends with the second path.
C14_Witness ==
  /\ Applied("concatenatePaths")
  /\ qin.path1 = [points |-> <<IVec(1, 0, 0), IVec(0, 1, 0)>>, parity |-> PARITY_ODD]
  /\ qin.path2 = [points |-> <<IVec(1, 0, 0)>>, parity |-> PARITY_ODD]
  /\ qout.value = [points |-> <<IVec(1, 0, 0), IVec(0, 1, 0), IVec(1, 0, 0)>>,
                   parity |-> PARITY_EVEN]

\* C15: applyOrbitDrag returns azimuth + deltaX, polar + deltaY clamped to
\* [0.1, pi - 0.1], and the distance and target it was given; after any
\* sequence of drags from createOrbitState() the polar angle is within
\* [0.1, pi - 0.1] and the distance is 4.0.
C15_OrbitDrag ==
  /\ qin.fn = "applyOrbitDrag" =>
        LET moved == qin.orbit.polar + qin.deltaY
        IN  /\ qout.azimuth = qin.orbit.azimuth + qin.deltaX
            /\ qout.polar = IF moved < PolarMarginMilli THEN PolarMarginMilli
                             ELSE IF moved > PiMilli - PolarMarginMilli
                                  THEN PiMilli - PolarMarginMilli
                                  ELSE moved
            /\ qout.distance = qin.orbit.distance
            /\ qout.target = qin.orbit.target
  /\ qout.polar >= PolarMarginMilli
  /\ qout.polar <= PiMilli - PolarMarginMilli
  /\ qout.distance = 4

\* C15 witness: a drag past the lower pole from a camera that an earlier
\* drag had already moved is clamped to 0.1, the azimuth still moving.
C15_Witness ==
  /\ qin.fn = "applyOrbitDrag"
  /\ qin.orbit # createOrbitState
  /\ qin.orbit.polar + qin.deltaY < PolarMarginMilli
  /\ qin.deltaX # 0
  /\ qout.polar = PolarMarginMilli
  /\ qout.azimuth # qin.orbit.azimuth

\* C16: for every unit point, class center and aperture, the point and its
\* negation are both inside or both outside the cone, and have the same
\* weight.
C16_ConeAntipodalSymmetry ==
  /\ Applied("pointInQuotientCone") => qout.value = qout.antipodal
  /\ Applied("quotientConeWeight") => qout.value = qout.antipodal

\* C16 witness: with center [1,0,0] and aperture pi/4, the point
\* [-1,-1,0]/sqrt(2), which is nearer to the second representative, and its
\* negation are both inside the cone.
C16_Witness ==
  /\ Applied("pointInQuotientCone")
  /\ qin.point = MkVec(<<-1, -1, 0>>, <<0, 0, 0>>, 2)
  /\ qin.center = IVec(1, 0, 0)
  /\ qin.aperture = 785
  /\ qout.value
  /\ qout.antipodal

Weight(num, den) == [num |-> num, den |-> den, tiny |-> 0]

AtRepresentative ==
  qin.point \in {classOf(qin.center).representatives[i] : i \in 1..2}

\* what C17 says of the points away from the representatives: the weight
\* is 1 - minAngle/a when minAngle < a, so 0.5 at minAngle = a/2, and 0.0
\* when minAngle >= a
FalloffLaw ==
  /\ ~AngleLeq(Milli(qin.aperture), qout.minAngle) =>
        /\ qout.value.num * qin.aperture =
              (qin.aperture - qout.minAngle.milli) * qout.value.den
        /\ qout.value.tiny = -qout.minAngle.tiny
  /\ qout.minAngle = Milli(qin.aperture \div 2) /\ qin.aperture % 2 = 0 =>
        qout.value = Weight(1, 2)
  /\ AngleLeq(Milli(qin.aperture), qout.minAngle) => qout.value = Weight(0, 1)

AngleInRange(x, lo, hi) == AngleLeq(Milli(lo), x) /\ AngleLeq(x, Milli(hi))

Orthogonal(v, w) == v.c[1] * w.c[1] + v.c[2] * w.c[2] + v.c[3] * w.c[3] = 0

\* what C18 says of every pair of classes but for the two distances it
\* gives as 0
DistanceLaws ==
  /\ AngleInRange(qout.ab, 0, PiMilli \div 2)
  /\ qout.ab = qout.ba
  /\ Orthogonal(qin.center, qin.point) => qout.ab = Milli(PiMilli \div 2)
  /\ qout.otherReps = {qout.ab}

\* C18 as stated: quotientDistance lies in [0, pi/2], is symmetric, is 0
\* between a class and itself and between classOf(v) and classOf(-v), is
\* pi/2 between the classes of orthogonal vectors, and is the same for
\* either representative of either class.
C18_DistanceExactZero ==
  Applied("quotientDistance") =>
     /\ DistanceLaws
     /\ qout.aa = Milli(0)
     /\ qout.antipodal = Milli(0)

\* C18 amended: as above, with the distance between a class and itself and
\* between classOf(v) and classOf(-v) zero up to rounding (below half a
\* milliradian) instead of exactly 0.
C18_DistanceNearZero ==
  Applied("quotientDistance") =>
     /\ DistanceLaws
     /\ qout.aa.milli = 0
     /\ qout.antipodal.milli = 0

\* C18 witness: for the class of [1,1,0] the distance to itself is not
\* exactly 0, and its distance to the class of [1,-1,0] is pi/2.
C18_Witness ==
  /\ Applied("quotientDistance")
  /\ qin.center = IVec(1, 1, 0)
  /\ qin.point = MkVec(<<1, -1, 0>>, <<0, 0, 0>>, 2)
  /\ qout.aa = [milli |-> 0, tiny |-> 1]
  /\ qout.ab = Milli(PiMilli \div 2)

\* a vector of the grid is shorter than 1e-12 exactly when its integer parts
\* are all zero
BelowEps(v) == v.c = <<0, 0, 0>>

\* C19: Vec3.normalize returns (0,0,1) for every vector shorter than 1e-12
\* (and returns, never throws); classOf of the zero vector has canonical
\* (0,0,1); a ClickQuotient or ClickSource with the zero point selects that
\* class; vertexDirections maps a zero vertex to (0,0,1).
C19_DegenerateFallback ==
  /\ Applied("Vec3.normalize") /\ BelowEps(qin) => qout.value = IVec(0, 0, 1)
  /\ Applied("classOf") /\ qin = Zero =>
        /\ qout.value.canonical = IVec(0, 0, 1)
        /\ qout.value.representatives = <<IVec(0, 0, 1), IVec(0, 0, -1)>>
  /\ Applied("processIntent") /\ qin = Zero =>
        /\ qout.value.selectedClass = classOf(Zero)
        /\ qout.value.selectedClass.canonical = IVec(0, 0, 1)
  /\ Applied("vertexDirections") =>
        /\ qout.value[2] = IVec(0, 0, 1)
        /\ BelowEps(qin) => qout.value[1] = IVec(0, 0, 1)
        /\ qout.value[3] = IVec(1, 0, 0)

\* C19 witness: a ClickSource with the zero point has selected the class of
\* (0,0,1).
C19_Witness ==
  /\ Applied("processIntent")
  /\ qout.type = "ClickSource"
  /\ qin = Zero
  /\ qout.value.selectedClass.canonical = IVec(0, 0, 1)

\* the state passed in has the fields it had before the call
StateUntouched == qout.heap[qin.state] = qin.heap[qin.state]

\* the paths passed in have the points and parity they had before the call
PathsUntouched ==
  /\ PathAt(qout.heap, qin.path1) = PathAt(qin.heap, qin.path1)
  /\ PathAt(qout.heap, qin.path2) = PathAt(qin.heap, qin.path2)

\* C20: processIntent, for every intent, and setColors leave every field of
\* the state passed in unchanged, and appendToPath, concatenatePaths and
\* reversePath leave the points and parity of the paths passed in unchanged;
\* what they return is the new state or path.
C20_ReplacedNotMutated ==
  /\ Applied("processIntent") =>
        /\ StateUntouched
        /\ qout.heap[qout.ref] = processIntent(qin.heap[qin.state], qout.args)
  /\ Applied("setColors") =>
        /\ StateUntouched
        /\ qout.heap[qout.ref] =
              setColors(qin.heap[qin.state], qout.args[1], qout.args[2])
  /\ Applied("appendToPath") =>
        /\ PathsUntouched
        /\ PathAt(qout.heap, qout.ref) =
              appendToPath(PathAt(qin.heap, qin.path1), qout.args)
  /\ Applied("concatenatePaths") =>
        /\ PathsUntouched
        /\ PathAt(qout.heap, qout.ref) =
              concatenatePaths(PathAt(qin.heap, qin.path1), PathAt(qin.heap, qin.path2))
  /\ Applied("reversePath") =>
        /\ PathsUntouched
        /\ PathAt(qout.heap, qout.ref) = reversePath(PathAt(qin.heap, qin.path1))

\* C20 witness: SetAperture on the default state has returned a new state
\* with the new aperture, the state passed in still having the default one.
C20_Witness ==
  /\ Applied("processIntent")
  /\ qout.args = [type |-> "SetAperture", value |-> 4000]
  /\ qin.heap[qin.state] = createDefaultSelection
  /\ qout.ref # qin.state
  /\ qout.heap[qout.ref].aperture = 4000
  /\ qout.heap[qin.state].aperture = DefaultApertureMilli

\* C21: for every state and point, isPointHighlighted equals
\* pointInQuotientCone, and selectionWeight equals quotientConeWeight, of
\* the normalized point, the selected class and the aperture.
C21_QueriesAgree ==
  /\ Applied("isPointHighlighted") => qout.value = qout.primitive
  /\ Applied("selectionWeight") => qout.value = qout.primitive

\* C21 witness: the point [1,1,0], not normalized, is highlighted by the
\* selection of [1,0,0] with aperture pi/4, as its direction is in the cone.
C21_Witness ==
  /\ Applied("isPointHighlighted")
  /\ qin.point = IVec(1, 1, 0)
  /\ qin.state.selectedClass = classOf(IVec(1, 0, 0))
  /\ qin.state.aperture = 785
  /\ qout.value
  /\ qout.primitive

\* C22: for every slider value t and any two calibrations (or none),
\* sliderToAperture gives the same aperture, 0.05 + clamp(t,0,1)*(pi/2 - 0.05),
\* which lies in [0.05, pi/2].
C22_CalibrationDoesNotLeak ==
  Applied("sliderToAperture") =>
     LET t == IF qin.slider < 0 THEN 0
              ELSE IF qin.slider > 1000 THEN 1000 ELSE qin.slider
     IN  /\ qout.aperture1 = qout.aperture2
         /\ qout.aperture1 = 50 * 1000 + t * (PiMilli \div 2 - 50)
         /\ qout.aperture1 >= 50 * 1000
         /\ qout.aperture1 <= (PiMilli \div 2) * 1000

\* C22 witness: the slider at one half gave the same aperture without a
\* calibration and with the calibration of a 1920 x 480 viewport at pixel
\* ratio 2.
C22_Witness ==
  /\ Applied("sliderToAperture")
  /\ qin.slider = 500
  /\ qin.c1 = Undefined
  /\ qin.c2 # Undefined
  /\ qin.c2.characteristicSizePx = 960
  /\ qout.aperture1 = qout.aperture2

\* C24: rotationBetweenVectors(from, to) returns the identity matrix when the
\* normalized vectors are aligned (dot within 1e-6 of 1); when they are
\* antiparallel (dot within 1e-6 of -1) it returns the half turn about
\* normalize(cross(from, perp)), perp = (1,0,0) if |from.x| < 0.9 and (0,1,0)
\* otherwise; and in every case the returned matrix applied to
\* normalize(from) gives normalize(to) (to the tolerance 1e-6 of approxEq).
C24_RotationTakesFromToTo ==
  Applied("rotationBetweenVectors") =>
     LET f    == Vec3Normalize(qin.from)
         t    == Vec3Normalize(qin.to)
         dot  == Vec3Dot(f, t)
         perp == IF AbsXBelowNineTenths(f) THEN IVec(1, 0, 0) ELSE IVec(0, 1, 0)
     IN  /\ AbsDiffUnitLt(dot, 1, 6) => qout.value = IDENTITY_MAT3
         /\ AbsDiffUnitLt(dot, -1, 6) =>
               qout.value = rotationAxisAngle(Vec3Normalize(Vec3Cross(f, perp)), MathPI)
         /\ Vec3ApproxEq(qout.result, t, 6)

\* the handler with a click that changes the class of the prior state, next
\* to a handler with a SetAperture that changes its aperture
IsClickChanging(h) ==
  /\ qin.intents[h].type \in {"ClickQuotient", "ClickSource"}
  /\ classOf(qin.intents[h].point) # qin.prior.selectedClass

IsApertureChanging(h) ==
  /\ qin.intents[h].type = "SetAperture"
  /\ qin.intents[h].value # qin.prior.aperture

BothStored == qout.pc = <<"stored", "stored">>

\* both handlers passed the prior state
Raced == qout.passed = <<qin.prior, qin.prior>>

\* the handler storing last passed the state the other one had stored
Chained == qout.passed[qout.stored[2]] = qout.returned[qout.stored[1]]

SelectPulledBack ==
  call.fn = "pullbackAction" /\ call.action.type = "Select" /\ ~ret.threw

\* C25: the colors hard-coded in the Select branch of pullbackAction (the
\* color parameter of effectOnU and of effectOnNegU) differ from the default
\* colors u and negU of createDefaultSelection().
C25_SelectColorsDiffer ==
  SelectPulledBack =>
     <<ret.value.effectOnU.parameters.color, ret.value.effectOnNegU.parameters.color>>
        # <<createDefaultSelection.colors.u, createDefaultSelection.colors.negU>>

\* C25 as amended: the colors hard-coded in the Select branch of
\* pullbackAction are the default colors of createDefaultSelection(), u for
\* effectOnU and negU for effectOnNegU, whatever colors the state holds.
C25_SelectColorsAreDefaults ==
  SelectPulledBack =>
     /\ ret.value.effectOnU.parameters.color = createDefaultSelection.colors.u
     /\ ret.value.effectOnNegU.parameters.color = createDefaultSelection.colors.negU

\* C25 witness: a Select pulled back from a state whose colors were changed
\* with setColors still carries '#00e5bc' and '#6366f1'.
C25_Witness ==
  /\ SelectPulledBack
  /\ state.colors # createDefaultSelection.colors
  /\ ret.value.effectOnU.parameters.color = "#00e5bc"
  /\ ret.value.effectOnNegU.parameters.color = "#6366f1"

\* C26: closeLoop returns EVEN for every path with fewer than 2 points,
\* whatever parity the path stores, and for every path with 2 or more points
\* returns the parity the path stores.
C26_CloseLoop ==
  Applied("closeLoop") =>
     /\ Len(qin.points) \in {0, 1} => qout.value = 0
     /\ Len(qin.points) >= 2 => qout.value = qin.parity

\* C26 witness: a one-point path storing ODD was closed to EVEN.
C26_Witness ==
  /\ Applied("closeLoop")
  /\ Len(qin.points) = 1
  /\ qin.parity = 1
  /\ qout.value = 0

\* the place of the last intent of one of the types in the list, 0 if none
LastIndex(log, types) ==
  LET at == {i \in 1..Len(log) : log[i].type \in types}
  IN  IF at = {} THEN 0 ELSE CHOOSE i \in at : \A j \in at : j <= i

Clicks == {"ClickQuotient", "ClickSource"}

\* C27: after any sequence of intents applied serially from
\* createDefaultSelection(), the aperture is the value of the last SetAperture
\* after the last Reset (0.4 if there is none) and the selected class is
\* classOf of the point of the last click after the last Reset
\* (classOf([0,1,0]) if there is none), DragOrbit affecting neither; a click
\* and a SetAperture commute, and any intent applied twice in a row gives
\* what applying it once gives.
C27_LastIntentWins ==
  LET lastReset == LastIndex(qin, {"Reset"})
      lastDial  == LastIndex(qin, {"SetAperture"})
      lastClick == LastIndex(qin, Clicks)
  IN  /\ state.aperture = IF lastDial > lastReset THEN qin[lastDial].value ELSE 400
      /\ state.selectedClass = IF lastClick > lastReset
                                 THEN classOf(qin[lastClick].point)
                                 ELSE classOf(IVec(0, 1, 0))
      /\ \A click, dial \in HeldIntents :
            click.type \in Clicks /\ dial.type = "SetAperture" =>
               processIntent(processIntent(state, click), dial)
                 = processIntent(processIntent(state, dial), click)
      /\ \A intent \in HeldIntents :
            processIntent(processIntent(state, intent), intent)
              = processIntent(state, intent)

\* C27 witness: SetAperture(4000), Reset and a click at [-1,0,0] were
\* applied; the aperture is back at 0.4 and the class is the one clicked.
C27_Witness ==
  /\ Len(qin) = 3
  /\ qin[1] = [type |-> "SetAperture", value |-> 4000]
  /\ qin[2].type = "Reset"
  /\ qin[3] = [type |-> "ClickSource", point |-> IVec(-1, 0, 0)]
  /\ state.aperture = 400
  /\ state.selectedClass = classOf(IVec(-1, 0, 0))

\* C28: every path obtained from createPath by appendToPath,
\* concatenatePaths and reversePath has parity EVEN, so closeLoop returns
\* EVEN and isNullHomotopic returns true for it; the ODD of
\* antipodalTransitionParity is the parity of none of them.
C28_OddUnreachable ==
  \A slot \in 1..2 :
     /\ qin[slot].parity = 0
     /\ closeLoop(qin[slot]) = 0
     /\ isNullHomotopic(qin[slot]) = TRUE
     /\ \A from, to \in PathPoints :
           qin[slot].parity # antipodalTransitionParity(from, to)

\* C28 witness: a path of three points came out of a concatenation, next to
\* a path of two points, both EVEN.
C28_Witness ==
  /\ Applied("concatenatePaths")
  /\ Len(qin[1].points) = 3
  /\ Len(qin[2].points) = 2
  /\ qin[1].points[1] # qin[1].points[3]
  /\ qin[1].parity = 0

\* C29: for every ShapeId and every detail >= 1, makeShapeMesh returns a mesh
\* whose indices come in threes and all satisfy 0 <= i < vertices.length;
\* a second call with the same arguments returns an equal mesh; and an
\* unknown shape id throws.
C29_MeshWellFormed ==
  Applied("makeShapeMesh") =>
     /\ qin[1] \in ShapeIds =>
           \A n \in 1..Len(qout.calls) :
              LET r == qout.calls[n]
              IN  /\ ~r.threw
                  /\ Len(r.value.indices) % 3 = 0
                  /\ \A k \in 1..Len(r.value.indices) :
                        /\ r.value.indices[k] >= 0
                        /\ r.value.indices[k] < Len(r.value.vertices)
     /\ qin[1] \notin ShapeIds => \A n \in 1..Len(qout.calls) : qout.calls[n].threw
     /\ Len(qout.calls) = 2 => qout.calls[1] = qout.calls[2]

\* C29 witness: the triangle of detail 3 was made twice: 20 vertices, 18
\* faces, the top index in use.
C29_Witness ==
  /\ Applied("makeShapeMesh")
  /\ qin = <<"triangle", 3>>
  /\ Len(qout.calls) = 2
  /\ Len(qout.calls[2].value.vertices) = 20
  /\ Len(qout.calls[2].value.indices) = 54
  /\ \E k \in 1..54 : qout.calls[2].value.indices[k] = 19

\* a weight num/den + tiny above 0, and at most 1
WeightPositive(w) == w.num > 0 \/ (w.num = 0 /\ w.tiny > 0)
WeightAtMostOne(w) == w.num < w.den \/ (w.num = w.den /\ w.tiny <= 0)

\* C30: for every point, center and aperture the weight lies in [0, 1]; a
\* weight above 0 implies the point is in the cone; and a point whose
\* smaller angle to the representatives equals the aperture exactly is in
\* the cone but has weight 0.
C30_WeightAndMembership ==
  Applied("quotientConeWeight, pointInQuotientCone") =>
     /\ qout.weight.den > 0
     /\ WeightPositive(qout.weight) \/ qout.weight = [num |-> 0, den |-> 1, tiny |-> 0]
     /\ WeightAtMostOne(qout.weight)
     /\ WeightPositive(qout.weight) => qout.inside
     /\ qout.minAngle = [milli |-> qin.aperture, tiny |-> 0] =>
           /\ qout.inside
           /\ qout.weight = [num |-> 0, den |-> 1, tiny |-> 0]

\* C30 witness: [0,1,0] is at pi/2 from both representatives of the class of
\* [1,0,0]; with aperture pi/2 it is in the cone with weight 0.
C30_Witness ==
  /\ Applied("quotientConeWeight, pointInQuotientCone")
  /\ qin.point = IVec(0, 1, 0)
  /\ qin.center = IVec(1, 0, 0)
  /\ qin.aperture = 1571
  /\ qout.minAngle = [milli |-> 1571, tiny |-> 0]
  /\ qout.inside
  /\ qout.weight = [num |-> 0, den |-> 1, tiny |-> 0]

====
